---- MODULE Spec2Model ----
(***************************************************************************)
(* Model of the MarsTip 24-hour planning (time-slot scheduler), of its     *)
(* mode scheduler and of its adaptive poller, app/src/routes/+page.svelte, *)
(* and of the UDP client of the development server, marstek-client.js.     *)
(*                                                                         *)
(* Units.  The source keeps hours as decimal numbers (22.083 for 22h05).   *)
(* The model keeps the same quantities in whole MINUTES: 24 h = 1440,      *)
(* MIN_SLOT_DURATION 0.25 h = 15, the snapping grid 1/12 h = 5.            *)
(* Slot indices are 1-based here (Sequences); the source's index k is      *)
(* k + 1 in the model, and the source's null boundary index is 0.          *)
(***************************************************************************)
EXTENDS Integers, Sequences, FiniteSets, TLC

VARIABLES
    timeSlots,        \* line 96: the slot list
    editingSlot,      \* line 100: copy of the slot open in the editor (NoSlot = null)
    showSlotModal,    \* line 101
    draggingBoundary, \* line 106: boundary being dragged (0 = null)
    storedSlots,      \* what saveTimeSlots last wrote under STORAGE_KEY_SLOTS
    nextId,           \* number of ids handed out by crypto.randomUUID()
    keyOpens,         \* editors opened from the keyboard while a drag was in progress
    edits,            \* clicks on the mode, direction and power fields of the editor
    last,             \* the handler that ran last, with its arguments
    storedScheduler,  \* what saveTimeSlots last wrote under STORAGE_KEY_SCHEDULER
    isTauriEnv,       \* line 7
    discovering,      \* line 84: TRUE until onMount has run
    deviceConfigured, \* line 85
    discoveryError,   \* line 86: TRUE when not null
    showDeviceSelector, \* line 90
    connecting,       \* line 91
    setDeviceCalls,   \* set_device invocations in flight (selectDevice, line 419)
    loading,          \* line 68
    error,            \* line 67: TRUE when not null
    data,             \* line 66: the last dashboard snapshot (NoData = null)
    fetching,         \* line 92
    fetches,          \* dashboard calls in flight (fetchData, lines 391-395)
    currentInterval,  \* line 93
    interval,         \* line 69: handle of the poll timer armed last (0 = undefined)
    timers,           \* poll timers armed by setInterval and not cleared
    isVisible,        \* line 114
    schedulerEnabled, \* line 99
    currentScheduledSlotId, \* line 102 (0 = null)
    modeRequests,     \* set_mode requests in flight (applyMode, lines 527-538)
    deviceMode,       \* the mode the device is in
    now,              \* the wall clock, in minutes since midnight
    deviceIp,         \* marstek-client.js line 6 (0 = null)
    devicePort,       \* marstek-client.js line 7
    commands,         \* the sendCommand() of each statement of each getDashboard()
    dashboards,       \* the calls of getDashboard(): position and locals
    discovery         \* the call of discoverDevices(): socket, timer, devices

\* the state of the device session, of the poller and of the mode scheduler
deviceVars == <<isTauriEnv, discovering, deviceConfigured, discoveryError, showDeviceSelector,
                connecting, setDeviceCalls, loading, error, data, fetching, fetches,
                currentInterval, interval, timers, isVisible, schedulerEnabled,
                currentScheduledSlotId, modeRequests, deviceMode, now>>

\* the state of the planning
slotVars == <<timeSlots, editingSlot, showSlotModal, draggingBoundary, nextId, keyOpens, edits>>

\* the state of the UDP client
clientVars == <<deviceIp, devicePort, commands, dashboards, discovery>>

\* the state of the page and of its storage
pageVars == <<timeSlots, editingSlot, showSlotModal, draggingBoundary, storedSlots, nextId,
              keyOpens, edits, last, storedScheduler, deviceVars>>

vars == <<pageVars, clientVars>>

----------------------------------------------------------------------------
(* Program constants *)

DAY_END == 1440               \* 24 h (line 97, line 221)
MIN_SLOT_DURATION == 15       \* 0.25 h (line 301)
FIVE_MINUTES == 5             \* 1/12 h (line 305)
FAST_INTERVAL == 3000         \* ms (line 93, line 451)

Modes == {"Auto", "AI", "Manual", "Passive"}   \* line 58

(* Bounds of the model *)

MaxIds == 3                   \* ids crypto.randomUUID() may hand out in a session

\* times a slot button may be activated from the keyboard (Enter on the focused
\* button) while the mouse holds a boundary
MaxKeyOpens == 1

\* clicks on the fields of the editor in a session
MaxEdits == 2

\* the modes and the direction picked in the editor
ModeInputs == {"Manual", "Auto"}

ChargeInputs == {"true"}

\* pointer positions fed to onDrag: e.clientX - rect.left, in pixels
DragX == {-30, 594}

\* values typed in the power field of the editor
PowerInputs == {800}

----------------------------------------------------------------------------
(* Slots *)

\* config?: { power?, isCharge?, cd_time? } (lines 59-63).  present = FALSE is
\* an undefined config; power = 0 / cd_time = 0 / isCharge = "undefined" are
\* absent fields.
NoConfig == [present |-> FALSE, power |-> 0, isCharge |-> "undefined", cd_time |-> 0]

EmptyConfig == [present |-> TRUE, power |-> 0, isCharge |-> "undefined", cd_time |-> 0]

\* editingSlot = null
NoSlot == [id |-> 0, startHour |-> 0, endHour |-> 0, mode |-> "Auto", config |-> NoConfig]

\* applyMode(mode) without a config
NoCfg == [kind |-> "none"]

\* no set_mode command
NoCmd == [mode |-> "none", config |-> NoCfg]

\* data = null
NoData == [present |-> FALSE, mode |-> "undefined"]

\* last: op the handler, idx the slot or boundary it acted on, hour the proposed
\* hour of a drag or the midpoint of a split, done whether it changed the list,
\* raised whether it ended in an exception, writes the calls of saveTimeSlots
\* it made, cmd the set_mode command it issued, sent whether it sent a dashboard
\* request, responseTime and hasError what a completed fetchData measured,
\* from the time elapsed (in half milliseconds), again whether the handler
\* before it was a run of checkScheduler too, before the currentInterval a
\* handler that runs startDashboard() found
NoOp == [op |-> "init", idx |-> 0, hour |-> 0, done |-> FALSE, raised |-> FALSE,
         writes |-> 0, cmd |-> NoCmd, sent |-> FALSE, responseTime |-> 0, hasError |-> FALSE,
         elapsed |-> 0, again |-> FALSE, before |-> 0]

\* timeSlots.findIndex(s => s.id === id); 0 when not found (source: -1)
findIndex(slots, id) ==
    IF \E i \in 1..Len(slots) : slots[i].id = id
    THEN CHOOSE i \in 1..Len(slots) :
            slots[i].id = id /\ \A j \in 1..(i - 1) : slots[j].id # id
    ELSE 0

\* timeSlots.filter(s => s.id !== slotId)
RECURSIVE filterOut(_, _)
filterOut(slots, id) ==
    IF slots = << >> THEN << >>
    ELSE IF Head(slots).id = id THEN filterOut(Tail(slots), id)
         ELSE <<Head(slots)>> \o filterOut(Tail(slots), id)

----------------------------------------------------------------------------
(* The UDP client of the development server, marstek-client.js.  Handlers  *)
(* of the event loop run one at a time; the continuation of an await runs  *)
(* before any other handler once the awaited promise is settled.           *)

DEFAULT_PORT == 30000         \* marstek-client.js line 3
TIMEOUT_MS == 5000            \* marstek-client.js line 4
DISCOVERY_WINDOW == 3000      \* marstek-client.js line 18
REQUESTS == 6                 \* marstek-client.js lines 94-99

\* getDashboard() calls that may be made in the model
MaxCalls == 1

\* datagrams that may arrive during one discovery in the model
MaxReplies == 4

\* the hosts of the network, by address
Hosts == {1, 2}

\* the calls of getDashboard()
Calls == 1..MaxCalls

\* what a datagram received by sendCommand holds: JSON with a result, JSON
\* without a (truthy) result, or something JSON.parse rejects
MessageInputs == {"result", "noResult", "notJson"}

\* the ports a reply may report: none (0), the default one, another one
ReportedPorts == {0, DEFAULT_PORT, DEFAULT_PORT + 1}

\* what a datagram received by discoverDevices holds: JSON whose result has a
\* device field, with the ip and port fields it reports (0 when it has none),
\* JSON without result.device, or something JSON.parse rejects
DiscoveryReplies ==
    {[kind |-> "device", ip |-> ip, port |-> port] :
        ip \in {0} \cup Hosts, port \in ReportedPorts}
        \cup {[kind |-> "noDevice", ip |-> 0, port |-> 0],
              [kind |-> "notJson", ip |-> 0, port |-> 0]}

\* {}
EmptyObject == [kind |-> "empty", of |-> 0, from |-> 0]

\* a local of getDashboard() not assigned yet
Undefined == [kind |-> "undefined", of |-> 0, from |-> 0]

\* the commands of getDashboard(), in the order of its statements
CommandOf(k) ==
    [id |-> k,
     method |-> <<"Marstek.GetDevice", "ES.GetStatus", "Bat.GetStatus",
                  "Wifi.GetStatus", "ES.GetMode", "EM.GetStatus">>[k]]

\* the local each command's result is assigned to
LocalOf(k) == <<"device", "energy", "battery", "wifi", "mode", "meter">>[k]

\* a sendCommand() that was not called: no socket, no timer, no promise
NoCommand ==
    [request |-> [id |-> 0, method |-> "none"], to |-> <<0, 0>>, client |-> "none",
     timeout |-> "none", delay |-> 0, sending |-> FALSE, promise |-> "none",
     value |-> Undefined, reason |-> "none"]

\* a getDashboard() that was not called
NoDashboard ==
    [pc |-> "idle", k |-> 0, requests |-> << >>,
     device |-> Undefined, energy |-> Undefined, battery |-> Undefined,
     wifi |-> Undefined, mode |-> Undefined, meter |-> Undefined,
     returned |-> [kind |-> "none"]]

\* no discoverDevices() was called
NoDiscovery ==
    [pc |-> "idle", client |-> "none", timer |-> "none", delay |-> 0,
     devices |-> << >>, replies |-> 0, valid |-> {}, result |-> << >>]

\* the module as loaded: lines 6-7
clientInit ==
    /\ deviceIp = 0
    /\ devicePort = DEFAULT_PORT
    /\ commands = [c \in Calls |-> [k \in 1..REQUESTS |-> NoCommand]]
    /\ dashboards = [c \in Calls |-> NoDashboard]
    /\ discovery = NoDiscovery

----------------------------------------------------------------------------
\* line 96: the list the component is created with
DefaultSlots ==
    <<[id |-> 1, startHour |-> 0, endHour |-> DAY_END, mode |-> "Auto", config |-> NoConfig]>>

\* onMount: loadSavedConfigs() keeps the default list when nothing is stored
\* and replaces it by the stored list otherwise (lines 120-146)
loadSavedConfigs(saved) == IF saved = << >> THEN DefaultSlots ELSE saved

\* The component as constructed, in the packaged application, on a first run:
\* nothing is stored yet.  The device is in its Auto mode and it is midnight.
Init ==
    /\ storedSlots = << >>
    /\ timeSlots = loadSavedConfigs(storedSlots)
    /\ editingSlot = NoSlot
    /\ showSlotModal = FALSE
    /\ draggingBoundary = 0
    /\ nextId = 1
    /\ keyOpens = 0
    /\ edits = 0
    /\ last = NoOp
    /\ storedScheduler = "none"
    /\ isTauriEnv = TRUE
    /\ discovering = TRUE
    /\ deviceConfigured = FALSE
    /\ discoveryError = FALSE
    /\ showDeviceSelector = FALSE
    /\ connecting = FALSE
    /\ setDeviceCalls = 0
    /\ loading = TRUE
    /\ error = FALSE
    /\ data = NoData
    /\ fetching = FALSE
    /\ fetches = 0
    /\ currentInterval = FAST_INTERVAL
    /\ interval = 0
    /\ timers = {}
    /\ isVisible = TRUE
    /\ schedulerEnabled = FALSE
    /\ currentScheduledSlotId = 0
    /\ modeRequests = << >>
    /\ deviceMode = "Auto"
    /\ now = 0
    /\ clientInit

\* Variant of saveTimeSlots that writes nothing
saveNothing(slots) == UNCHANGED <<storedSlots, storedScheduler>>

\* saveTimeSlots(): writes the list under STORAGE_KEY_SLOTS and schedulerEnabled
\* under STORAGE_KEY_SCHEDULER.  Called at the end of a handler, it stores what
\* that handler leaves.
saveTimeSlots(slots) ==
    /\ storedSlots' = slots
    /\ storedScheduler' = IF schedulerEnabled' THEN "true" ELSE "false"

\* openSlotEditor(slot), the click handler of a slot button of the ribbon:
\* editingSlot becomes a copy of the slot as it is in the list at that moment.
\* The buttons are reached with the mouse when no drag is in progress and the
\* editor's overlay is closed, and from the keyboard at any time; the document's
\* mousemove and mouseup listeners of a drag stay registered under the editor.
openSlotEditor(i, maxKeyOpens) ==
    /\ UNCHANGED <<deviceVars, clientVars>>
    /\ i \in 1..Len(timeSlots)
    /\ \/ draggingBoundary = 0 /\ ~showSlotModal /\ UNCHANGED keyOpens
       \/ draggingBoundary # 0 /\ keyOpens < maxKeyOpens /\ keyOpens' = keyOpens + 1
    /\ editingSlot' = timeSlots[i]
    /\ showSlotModal' = TRUE
    /\ last' = [NoOp EXCEPT !.op = "open", !.idx = i]
    /\ UNCHANGED <<timeSlots, draggingBoundary, storedSlots, storedScheduler, nextId, edits>>

\* the editor is rendered: {#if showSlotModal && editingSlot}
modalOpen == showSlotModal /\ editingSlot # NoSlot

\* the mode buttons of the editor: editingSlot.mode = m
editMode(m) ==
    /\ UNCHANGED <<deviceVars, clientVars>>
    /\ modalOpen
    /\ edits < MaxEdits
    /\ edits' = edits + 1
    /\ editingSlot.mode # m
    /\ editingSlot' = [editingSlot EXCEPT !.mode = m]
    /\ last' = [NoOp EXCEPT !.op = "editMode"]
    /\ UNCHANGED <<timeSlots, showSlotModal, draggingBoundary, storedSlots, storedScheduler, nextId, keyOpens>>

\* if (!editingSlot.config) editingSlot.config = {}
ensureConfig(slot) == IF slot.config.present THEN slot.config ELSE EmptyConfig

\* the Charge / Decharge buttons, shown for Manual and Passive
editIsCharge(b) ==
    /\ UNCHANGED <<deviceVars, clientVars>>
    /\ modalOpen
    /\ edits < MaxEdits
    /\ edits' = edits + 1
    /\ editingSlot.mode \in {"Manual", "Passive"}
    /\ editingSlot' = [editingSlot EXCEPT
                          !.config = [ensureConfig(editingSlot) EXCEPT !.isCharge = b]]
    /\ editingSlot' # editingSlot
    /\ last' = [NoOp EXCEPT !.op = "editIsCharge"]
    /\ UNCHANGED <<timeSlots, showSlotModal, draggingBoundary, storedSlots, storedScheduler, nextId, keyOpens>>

\* the power field, shown for Manual and Passive
editPower(p) ==
    /\ UNCHANGED <<deviceVars, clientVars>>
    /\ modalOpen
    /\ edits < MaxEdits
    /\ edits' = edits + 1
    /\ editingSlot.mode \in {"Manual", "Passive"}
    /\ editingSlot' = [editingSlot EXCEPT
                          !.config = [ensureConfig(editingSlot) EXCEPT !.power = p]]
    /\ editingSlot' # editingSlot
    /\ last' = [NoOp EXCEPT !.op = "editPower"]
    /\ UNCHANGED <<timeSlots, showSlotModal, draggingBoundary, storedSlots, storedScheduler, nextId, keyOpens>>

\* the countdown field, shown for Passive
editCdTime(c) ==
    /\ UNCHANGED <<deviceVars, clientVars>>
    /\ modalOpen
    /\ edits < MaxEdits
    /\ edits' = edits + 1
    /\ editingSlot.mode = "Passive"
    /\ editingSlot' = [editingSlot EXCEPT
                          !.config = [ensureConfig(editingSlot) EXCEPT !.cd_time = c]]
    /\ editingSlot' # editingSlot
    /\ last' = [NoOp EXCEPT !.op = "editCdTime"]
    /\ UNCHANGED <<timeSlots, showSlotModal, draggingBoundary, storedSlots, storedScheduler, nextId, keyOpens>>

\* the Annuler button
cancelEdit ==
    /\ UNCHANGED <<deviceVars, clientVars>>
    /\ modalOpen
    /\ showSlotModal' = FALSE
    /\ editingSlot' = NoSlot
    /\ last' = [NoOp EXCEPT !.op = "cancel"]
    /\ UNCHANGED <<timeSlots, draggingBoundary, storedSlots, storedScheduler, nextId, keyOpens, edits>>

\* the Sauvegarder button is disabled unless canSave
canSave ==
    (editingSlot.mode \in {"Manual", "Passive"}) => (editingSlot.config.isCharge # "undefined")

\* saveSlot()
saveSlot ==
    /\ UNCHANGED <<deviceVars, clientVars>>
    /\ modalOpen
    /\ canSave
    /\ LET idx == findIndex(timeSlots, editingSlot.id) IN
         /\ timeSlots' = IF idx > 0 THEN [timeSlots EXCEPT ![idx] = editingSlot]
                                    ELSE timeSlots
         /\ last' = [NoOp EXCEPT !.op = "save", !.idx = idx,
                                 !.done = (idx > 0), !.writes = 1]
    /\ showSlotModal' = FALSE
    /\ editingSlot' = NoSlot
    /\ saveTimeSlots(timeSlots')
    /\ UNCHANGED <<draggingBoundary, nextId, keyOpens, edits>>

\* Variant of deleteRefused that refuses only an empty list
deleteRefusedWhenEmpty(slots) == Len(slots) < 1

\* deleteSlot: if (timeSlots.length <= 1) return
deleteRefused(slots) == Len(slots) <= 1

\* Variant of deleteMerged in which the following slot, when there is one,
\* absorbs the interval
deleteMergedIntoNext(slots, idx) ==
    LET deleted == slots[idx]
        merged ==
            IF idx < Len(slots)
            THEN [slots EXCEPT ![idx + 1] = [slots[idx + 1] EXCEPT !.startHour = deleted.startHour]]
            ELSE [slots EXCEPT ![idx - 1] = [slots[idx - 1] EXCEPT !.endHour = deleted.endHour]]
        kept == filterOut(merged, deleted.id)
    IN  IF Len(kept) = 1
        THEN <<[kept[1] EXCEPT !.startHour = 0, !.endHour = DAY_END]>>
        ELSE kept

\* deleteSlot: the list once the neighbour has absorbed the interval and the
\* target is filtered out (lines 206-222)
deleteMerged(slots, idx) ==
    LET deleted == slots[idx]
        merged ==
            IF idx > 1
            THEN [slots EXCEPT ![idx - 1] = [slots[idx - 1] EXCEPT !.endHour = deleted.endHour]]
            ELSE IF idx < Len(slots)
                 THEN [slots EXCEPT ![idx + 1] = [slots[idx + 1] EXCEPT !.startHour = deleted.startHour]]
                 ELSE slots
        kept == filterOut(merged, deleted.id)
    IN  IF Len(kept) = 1
        THEN <<[kept[1] EXCEPT !.startHour = 0, !.endHour = DAY_END]>>
        ELSE kept

\* deleteSlot(editingSlot.id), the delete button of the editor
deleteSlot ==
    /\ UNCHANGED <<deviceVars, clientVars>>
    /\ modalOpen
    /\ LET slotId == editingSlot.id
           idx == findIndex(timeSlots, slotId)
       IN  IF deleteRefused(timeSlots) \/ idx = 0
           THEN /\ last' = [NoOp EXCEPT !.op = "delete", !.idx = idx]
                /\ UNCHANGED <<timeSlots, editingSlot, showSlotModal, storedSlots, storedScheduler>>
           ELSE /\ timeSlots' = deleteMerged(timeSlots, idx)
                /\ showSlotModal' = FALSE
                /\ editingSlot' = NoSlot
                /\ saveTimeSlots(timeSlots')
                /\ last' = [NoOp EXCEPT !.op = "delete", !.idx = idx,
                                        !.done = TRUE, !.writes = 1]
    /\ UNCHANGED <<draggingBoundary, nextId, keyOpens, edits>>

\* Variant of snapToFiveMinutes that rounds to the half hour
snapToHalfHour(twice) == 30 * ((twice + 30) \div 60)

\* Variant of snapToFiveMinutes that rounds to the minute
snapToMinute(twice) == (twice + 1) \div 2

\* snapToFiveMinutes(hour) = Math.round(hour * 12) / 12.  The argument is given
\* as `twice`, two times its value in minutes, so that the midpoint of two grid
\* values is a whole number.  Math.round rounds a half up.
snapToFiveMinutes(twice) == FIVE_MINUTES * ((twice + FIVE_MINUTES) \div (2 * FIVE_MINUTES))

\* A bound that is a multiple of a quarter of an hour is a double without
\* rounding error (0.25 = 2^-2); the other grid values, k / 12, are not.
ExactHour(h) == h % 15 = 0

\* What snapToFiveMinutes((startHour + endHour) / 2) can fall short of the
\* midpoint rounded half up.  When the exact midpoint lies half way between two
\* grid values, hour * 12 is k + 0.5 and Math.round returns k + 1 if the sum, the
\* division and the product are exact, which they are for bounds without
\* rounding error.  Otherwise the product is k + 0.5 up to the rounding error of
\* its operands, and Math.round returns k + 1 or k depending on them: both
\* outcomes are kept.
snapShortfall(startHour, endHour) ==
    IF (startHour + endHour) % (2 * FIVE_MINUTES) = FIVE_MINUTES
       /\ ~(ExactHour(startHour) /\ ExactHour(endHour))
    THEN {0, FIVE_MINUTES}
    ELSE {0}

\* addSlotAfter: the list with the target replaced by the shrunk copy of
\* afterSlot and the new slot inserted after it (lines 236-249)
splitAt(slots, idx, afterSlot, midHour, newId) ==
    LET shrunk == [afterSlot EXCEPT !.endHour = midHour]
        newSlot == [id |-> newId, startHour |-> midHour, endHour |-> afterSlot.endHour,
                    mode |-> afterSlot.mode, config |-> afterSlot.config]
    IN  SubSeq(slots, 1, idx - 1) \o <<shrunk, newSlot>> \o SubSeq(slots, idx + 1, Len(slots))

\* addSlotAfter(editingSlot), the Diviser button of the editor
addSlotAfter(maxIds) ==
    /\ UNCHANGED <<deviceVars, clientVars>>
    /\ modalOpen
    /\ nextId < maxIds
    /\ LET afterSlot == editingSlot
           idx == findIndex(timeSlots, afterSlot.id)
       IN  IF idx = 0
           THEN /\ last' = [NoOp EXCEPT !.op = "split"]
                /\ UNCHANGED <<timeSlots, editingSlot, showSlotModal, storedSlots, storedScheduler, nextId>>
           ELSE \E shortfall \in snapShortfall(afterSlot.startHour, afterSlot.endHour) :
                LET midHour == snapToFiveMinutes(afterSlot.startHour + afterSlot.endHour) - shortfall
                IN
                /\ timeSlots' = splitAt(timeSlots, idx, afterSlot, midHour, nextId + 1)
                /\ nextId' = nextId + 1
                /\ saveTimeSlots(timeSlots')
                /\ showSlotModal' = FALSE
                /\ editingSlot' = NoSlot
                /\ last' = [NoOp EXCEPT !.op = "split", !.idx = idx,
                                        !.hour = midHour, !.done = TRUE, !.writes = 1]
    /\ UNCHANGED <<draggingBoundary, keyOpens, edits>>

Min(a, b) == IF a < b THEN a ELSE b

Max(a, b) == IF a > b THEN a ELSE b

\* rubanElement.getBoundingClientRect(): the ribbon, one pixel per minute
RibbonRect == [left |-> 0, width |-> 1440]

\* xToHour(x, rect): ratio = max(0, min(1, x / rect.width)); ratio * 24
xToHour(x, rect) == (Max(0, Min(rect.width, x)) * DAY_END) \div rect.width

\* onDrag: newHour = Math.max(minHour, Math.min(maxHour, newHour))
clampHour(newHour, leftSlot, rightSlot) ==
    LET minHour == leftSlot.startHour + MIN_SLOT_DURATION
        maxHour == rightSlot.endHour - MIN_SLOT_DURATION
    IN  Max(minHour, Min(maxHour, newHour))

\* Variant of moveBoundary that moves the end of the left slot only
moveLeftEnd(slots, boundary, newHour) ==
    [slots EXCEPT ![boundary] = [slots[boundary] EXCEPT !.endHour = newHour]]

\* onDrag: timeSlots[draggingBoundary] = { ...leftSlot, endHour: newHour };
\* timeSlots[draggingBoundary + 1] = { ...rightSlot, startHour: newHour }
moveBoundary(slots, boundary, newHour) ==
    [slots EXCEPT ![boundary] = [slots[boundary] EXCEPT !.endHour = newHour],
                  ![boundary + 1] = [slots[boundary + 1] EXCEPT !.startHour = newHour]]

\* startDrag(boundaryIndex, e), the mousedown handler of the handle between
\* slot i and slot i + 1; it registers onDrag and endDrag on the document.
\* The editor's overlay (fixed inset-0 z-50) covers the handles while it is open.
startDrag(i) ==
    /\ UNCHANGED <<deviceVars, clientVars>>
    /\ i \in 1..(Len(timeSlots) - 1)
    /\ ~showSlotModal
    /\ draggingBoundary' = i
    /\ last' = [NoOp EXCEPT !.op = "startDrag", !.idx = i]
    /\ UNCHANGED <<timeSlots, editingSlot, showSlotModal, storedSlots, storedScheduler, nextId, keyOpens, edits>>

\* onDrag(e), the document's mousemove handler while a drag is in progress.
\* When the list has shrunk under the dragged index, rightSlot is undefined and
\* reading rightSlot.endHour throws before anything is written.
onDrag(x) ==
    /\ UNCHANGED <<deviceVars, clientVars>>
    /\ draggingBoundary # 0
    /\ LET hour == xToHour(x - RibbonRect.left, RibbonRect)
           snapped == snapToFiveMinutes(2 * hour)
       IN  IF draggingBoundary + 1 > Len(timeSlots)
           THEN /\ last' = [NoOp EXCEPT !.op = "drag", !.idx = draggingBoundary,
                                        !.hour = hour, !.raised = TRUE]
                /\ UNCHANGED timeSlots
           ELSE LET leftSlot == timeSlots[draggingBoundary]
                    rightSlot == timeSlots[draggingBoundary + 1]
                    newHour == clampHour(snapped, leftSlot, rightSlot)
                IN  /\ timeSlots' = moveBoundary(timeSlots, draggingBoundary, newHour)
                    /\ last' = [NoOp EXCEPT !.op = "drag", !.idx = draggingBoundary,
                                            !.hour = hour, !.done = TRUE]
    /\ UNCHANGED <<editingSlot, showSlotModal, draggingBoundary, storedSlots, storedScheduler, nextId, keyOpens, edits>>

\* endDrag(), the document's mouseup handler while a drag is in progress
endDrag ==
    /\ UNCHANGED <<deviceVars, clientVars>>
    /\ draggingBoundary # 0
    /\ saveTimeSlots(timeSlots)
    /\ draggingBoundary' = 0
    /\ last' = [NoOp EXCEPT !.op = "endDrag", !.idx = draggingBoundary, !.writes = 1]
    /\ UNCHANGED <<timeSlots, editingSlot, showSlotModal, nextId, keyOpens, edits>>

\* getCurrentSlot(): timeSlots.find(s => currentHour >= s.startHour &&
\* currentHour < s.endHour) ?? null, for currentHour = getHours() + getMinutes() / 60
\* given in minutes; NoSlot is null
getCurrentSlot(slots, currentHour) ==
    LET matches(i) == currentHour >= slots[i].startHour /\ currentHour < slots[i].endHour
    IN  IF \E i \in 1..Len(slots) : matches(i)
        THEN slots[CHOOSE i \in 1..Len(slots) : matches(i) /\ \A j \in 1..(i - 1) : ~matches(j)]
        ELSE NoSlot

\* the longest list a session of maxIds ids can build: one slot per id
MaxLen(maxIds) == maxIds

\* one handler runs
Step(maxIds, maxKeyOpens) ==
    \/ \E i \in 1..MaxLen(maxIds) : openSlotEditor(i, maxKeyOpens)
    \/ \E m \in ModeInputs : editMode(m)
    \/ \E b \in ChargeInputs : editIsCharge(b)
    \/ \E p \in PowerInputs : editPower(p)
    \/ cancelEdit
    \/ saveSlot
    \/ deleteSlot
    \/ addSlotAfter(maxIds)
    \/ \E i \in 1..MaxLen(maxIds) : startDrag(i)
    \/ \E x \in DragX : onDrag(x)
    \/ endDrag

Next == Step(MaxIds, MaxKeyOpens)

Spec == Init /\ [][Next]_vars

\* Longer sessions, of one more id, in which the list is changed
\* by splits, deletes and drags only: the editor is opened with the mouse and
\* closed by Annuler, Supprimer or Diviser
NextLong ==
    \/ \E i \in 1..MaxLen(MaxIds + 1) : openSlotEditor(i, 0)
    \/ cancelEdit
    \/ deleteSlot
    \/ addSlotAfter(MaxIds + 1)
    \/ \E i \in 1..MaxLen(MaxIds + 1) : startDrag(i)
    \/ \E x \in DragX : onDrag(x)
    \/ endDrag

SpecLong == Init /\ [][NextLong]_vars

----------------------------------------------------------------------------
(* The device session: discovery, polling and the mode scheduler.          *)
(* Spec and SpecLong above exercise the planning handlers on the component *)
(* as constructed; the specifications below run the whole page.           *)

\* getOptimalInterval: the four polling periods and the three thresholds, ms
MEDIUM_INTERVAL == 5000
SLOW_INTERVAL == 10000
BACKOFF_INTERVAL == 30000
FAST_BELOW == 500
MEDIUM_BELOW == 2000
SLOW_BELOW == 5000

\* checkScheduler: the defaults and the fixed fields of the commands
DEFAULT_POWER == 800
DEFAULT_CD_TIME == 300
WEEK_SET == 127

\* poll timers that may be armed at once in the model
MaxTimers == 2

\* set_mode commands that may be in flight at once in the model
MaxModeRequests == 1

\* the wall clock when checkScheduler reads it, minutes after midnight
ClockInputs == {0, 720}

\* the modes the device is put in from outside the application
ExternalModes == {"Auto", "Manual"}

\* time a dashboard request takes, in half milliseconds: 499 ms, 499.5 ms,
\* 500 ms, 1200 ms, 1999 ms, 1999.5 ms, 2000 ms, 4999 ms, 4999.5 ms, 5000 ms
ElapsedInputs == {998, 999, 1000, 2400, 3998, 3999, 4000, 9998, 9999, 10000}

\* what the discovery of onMount finds: no device, one device that accepts or
\* refuses set_device, several devices, or an exception
DiscoveryInputs == {"none", "one", "oneRefused", "many", "failed"}

\* The component as constructed in the web build (isTauriEnv = false)
InitWeb ==
    /\ storedSlots = << >>
    /\ timeSlots = loadSavedConfigs(storedSlots)
    /\ editingSlot = NoSlot
    /\ showSlotModal = FALSE
    /\ draggingBoundary = 0
    /\ nextId = 1
    /\ keyOpens = 0
    /\ edits = 0
    /\ last = NoOp
    /\ storedScheduler = "none"
    /\ isTauriEnv = FALSE
    /\ discovering = TRUE
    /\ deviceConfigured = FALSE
    /\ discoveryError = FALSE
    /\ showDeviceSelector = FALSE
    /\ connecting = FALSE
    /\ setDeviceCalls = 0
    /\ loading = TRUE
    /\ error = FALSE
    /\ data = NoData
    /\ fetching = FALSE
    /\ fetches = 0
    /\ currentInterval = FAST_INTERVAL
    /\ interval = 0
    /\ timers = {}
    /\ isVisible = TRUE
    /\ schedulerEnabled = FALSE
    /\ currentScheduledSlotId = 0
    /\ modeRequests = << >>
    /\ deviceMode = "Auto"
    /\ now = 0
    /\ clientInit


(* Screens: the {#if} chain of the page, lines 589-739 *)

selectorShown == ~discovering /\ showDeviceSelector

discoveryErrorShown == ~discovering /\ ~showDeviceSelector /\ discoveryError

errorShown ==
    ~discovering /\ ~showDeviceSelector /\ ~discoveryError /\ ~loading /\ error

dashboardShown ==
    ~discovering /\ ~showDeviceSelector /\ ~discoveryError /\ ~loading /\ ~error
    /\ data.present

\* the settings button of the header
settingsShown == deviceConfigured /\ ~showDeviceSelector /\ data.present

(* Timers: setInterval and clearInterval.  A timer is its handle and its   *)
(* period; setInterval returns a handle no armed timer has.                *)

newTimer(ts) == CHOOSE n \in 1..(Cardinality(ts) + 1) : \A t \in ts : t.id # n

setInterval(ts, period) == ts \cup {[id |-> newTimer(ts), period |-> period]}

\* if (interval) clearInterval(interval)
clearInterval(ts, handle) == {t \in ts : t.id # handle}

(* fetchData *)

\* Variant of fetchBusy that never sees a request in flight
fetchNeverBusy == FALSE

\* if (fetching) return
fetchBusy == fetching

\* fetchData() up to its await: whether it sends a dashboard request, given
\* the visibility it reads
fetchSends(visible) == ~(~visible /\ data.present) /\ ~fetchBusy

\* fetchData() up to its await
fetchData(visible) ==
    /\ fetching' = (fetching \/ fetchSends(visible))
    /\ fetches' = fetches + (IF fetchSends(visible) THEN 1 ELSE 0)

\* Math.round(performance.now() - startTime), of an elapsed time in half ms
responseTimeOf(elapsed) == (elapsed + 1) \div 2

\* Variant of getOptimalInterval whose thresholds are inclusive
getOptimalIntervalInclusive(responseTime, hasError) ==
    IF hasError THEN BACKOFF_INTERVAL
    ELSE IF responseTime <= FAST_BELOW THEN FAST_INTERVAL
    ELSE IF responseTime <= MEDIUM_BELOW THEN MEDIUM_INTERVAL
    ELSE IF responseTime <= SLOW_BELOW THEN SLOW_INTERVAL
    ELSE BACKOFF_INTERVAL

getOptimalInterval(responseTime, hasError) ==
    IF hasError THEN BACKOFF_INTERVAL
    ELSE IF responseTime < FAST_BELOW THEN FAST_INTERVAL
    ELSE IF responseTime < MEDIUM_BELOW THEN MEDIUM_INTERVAL
    ELSE IF responseTime < SLOW_BELOW THEN SLOW_INTERVAL
    ELSE BACKOFF_INTERVAL

\* a poll timer fires: fetchData()
timerFires ==
    /\ \E t \in timers : TRUE
    /\ fetchData(isVisible)
    /\ last' = [NoOp EXCEPT !.op = "fire", !.sent = fetchSends(isVisible)]
    /\ UNCHANGED <<slotVars, storedSlots, storedScheduler>>
    /\ UNCHANGED clientVars
    /\ UNCHANGED <<isTauriEnv, discovering, deviceConfigured, discoveryError,
                   showDeviceSelector, connecting, setDeviceCalls, loading, error, data,
                   currentInterval, interval, timers, isVisible, schedulerEnabled,
                   currentScheduledSlotId, modeRequests, deviceMode, now>>

\* Variant of fetchDone that does not reset the flag of the request in flight
fetchDoneLeavingFlag(elapsed, ok, modeKnown) ==
    /\ fetches > 0
    /\ fetches' = fetches - 1
    /\ IF ok
       THEN /\ data' = [present |-> TRUE,
                        mode |-> IF modeKnown THEN deviceMode ELSE "undefined"]
            /\ error' = FALSE
       ELSE /\ error' = TRUE
            /\ UNCHANGED data
    /\ loading' = FALSE
    /\ UNCHANGED fetching
    /\ LET responseTime == responseTimeOf(elapsed)
           newInterval == getOptimalInterval(responseTime, ~ok)
       IN  /\ last' = [NoOp EXCEPT !.op = "fetchDone", !.responseTime = responseTime,
                                   !.hasError = ~ok, !.elapsed = elapsed]
           /\ IF newInterval # currentInterval
              THEN \* scheduleNextFetch()
                   /\ Cardinality(clearInterval(timers, interval)) < MaxTimers
                   /\ currentInterval' = newInterval
                   /\ timers' = setInterval(clearInterval(timers, interval), newInterval)
                   /\ interval' = newTimer(clearInterval(timers, interval))
              ELSE UNCHANGED <<currentInterval, timers, interval>>
    /\ UNCHANGED <<slotVars, storedSlots, storedScheduler>>
    /\ UNCHANGED clientVars
    /\ UNCHANGED <<isTauriEnv, discovering, deviceConfigured, discoveryError,
                   showDeviceSelector, connecting, setDeviceCalls, isVisible,
                   schedulerEnabled, currentScheduledSlotId, modeRequests, deviceMode, now>>

\* the dashboard request of a fetchData() returns after elapsed half ms, with
\* a snapshot of the device (ok) or an exception: the rest of fetchData.  The
\* snapshot's mode is the device's mode, or undefined when that part of the
\* answer is missing.
fetchDone(elapsed, ok, modeKnown) ==
    /\ fetches > 0
    /\ fetches' = fetches - 1
    /\ IF ok
       THEN /\ data' = [present |-> TRUE,
                        mode |-> IF modeKnown THEN deviceMode ELSE "undefined"]
            /\ error' = FALSE
       ELSE /\ error' = TRUE
            /\ UNCHANGED data
    /\ loading' = FALSE
    /\ fetching' = FALSE
    /\ LET responseTime == responseTimeOf(elapsed)
           newInterval == getOptimalInterval(responseTime, ~ok)
       IN  /\ last' = [NoOp EXCEPT !.op = "fetchDone", !.responseTime = responseTime,
                                   !.hasError = ~ok, !.elapsed = elapsed]
           /\ IF newInterval # currentInterval
              THEN \* scheduleNextFetch()
                   /\ Cardinality(clearInterval(timers, interval)) < MaxTimers
                   /\ currentInterval' = newInterval
                   /\ timers' = setInterval(clearInterval(timers, interval), newInterval)
                   /\ interval' = newTimer(clearInterval(timers, interval))
              ELSE UNCHANGED <<currentInterval, timers, interval>>
    /\ UNCHANGED <<slotVars, storedSlots, storedScheduler>>
    /\ UNCHANGED clientVars
    /\ UNCHANGED <<isTauriEnv, discovering, deviceConfigured, discoveryError,
                   showDeviceSelector, connecting, setDeviceCalls, isVisible,
                   schedulerEnabled, currentScheduledSlotId, modeRequests, deviceMode, now>>

\* Variant of startDashboard that keeps the interval it finds
startDashboardKeepingInterval ==
    /\ UNCHANGED currentInterval
    /\ fetchData(isVisible)
    /\ timers' = setInterval(timers, currentInterval)
    /\ interval' = newTimer(timers)

\* startDashboard()
startDashboard ==
    /\ currentInterval' = FAST_INTERVAL
    /\ fetchData(isVisible)
    /\ timers' = setInterval(timers, FAST_INTERVAL)
    /\ interval' = newTimer(timers)

(* Session handlers *)

\* onMount: loadSavedConfigs(), then the discovery (packaged application) or
\* the direct start (web build), then the scheduler's timer is armed.  The
\* awaits of onMount are taken in one step: until discovering is reset no
\* other handler of the page has an effect that depends on them.
onMount(found) ==
    /\ discovering
    /\ timeSlots' = IF storedSlots = << >> THEN timeSlots ELSE storedSlots
    /\ schedulerEnabled' = IF storedScheduler = "none" THEN schedulerEnabled
                           ELSE (storedScheduler = "true")
    /\ discovering' = FALSE
    /\ IF isTauriEnv
       THEN CASE found = "none" ->
                   /\ discoveryError' = TRUE
                   /\ UNCHANGED <<deviceConfigured, showDeviceSelector, currentInterval,
                                  fetching, fetches, timers, interval>>
              [] found = "one" ->
                   /\ deviceConfigured' = TRUE
                   /\ startDashboard
                   /\ UNCHANGED <<discoveryError, showDeviceSelector>>
              [] found = "many" ->
                   /\ showDeviceSelector' = TRUE
                   /\ UNCHANGED <<deviceConfigured, discoveryError, currentInterval,
                                  fetching, fetches, timers, interval>>
              [] OTHER ->
                   \* discover_devices or set_device raised
                   /\ discoveryError' = TRUE
                   /\ UNCHANGED <<deviceConfigured, showDeviceSelector, currentInterval,
                                  fetching, fetches, timers, interval>>
       ELSE /\ found = "one"
            /\ deviceConfigured' = TRUE
            /\ startDashboard
            /\ UNCHANGED <<discoveryError, showDeviceSelector>>
    /\ last' = [NoOp EXCEPT !.op = "mount", !.sent = (fetches' > fetches),
                            !.before = IF deviceConfigured' THEN currentInterval ELSE 0]
    /\ UNCHANGED <<editingSlot, showSlotModal, draggingBoundary, nextId, keyOpens, edits,
                   storedSlots, storedScheduler>>
    /\ UNCHANGED clientVars
    /\ UNCHANGED <<isTauriEnv, connecting, setDeviceCalls, loading, error, data,
                   isVisible, currentScheduledSlotId, modeRequests, deviceMode, now>>

\* handleVisibilityChange(): the window is hidden or shown again
handleVisibilityChange(visible) ==
    /\ isVisible # visible
    /\ isVisible' = visible
    /\ IF visible /\ deviceConfigured /\ ~loading
       THEN /\ fetchData(visible)
            /\ last' = [NoOp EXCEPT !.op = "visibility", !.sent = fetchSends(visible)]
       ELSE /\ UNCHANGED <<fetching, fetches>>
            /\ last' = [NoOp EXCEPT !.op = "visibility"]
    /\ UNCHANGED <<slotVars, storedSlots, storedScheduler>>
    /\ UNCHANGED clientVars
    /\ UNCHANGED <<isTauriEnv, discovering, deviceConfigured, discoveryError,
                   showDeviceSelector, connecting, setDeviceCalls, loading, error, data,
                   currentInterval, interval, timers, schedulerEnabled,
                   currentScheduledSlotId, modeRequests, deviceMode, now>>

\* openDeviceSelector(), the settings button of the header
openDeviceSelector ==
    /\ settingsShown
    /\ timers' = clearInterval(timers, interval)
    /\ showDeviceSelector' = TRUE
    /\ deviceConfigured' = FALSE
    /\ error' = FALSE
    /\ loading' = TRUE
    /\ last' = [NoOp EXCEPT !.op = "openSelector"]
    /\ UNCHANGED <<slotVars, storedSlots, storedScheduler>>
    /\ UNCHANGED clientVars
    /\ UNCHANGED <<isTauriEnv, discovering, discoveryError, connecting, setDeviceCalls,
                   data, fetching, fetches, currentInterval, interval, isVisible,
                   schedulerEnabled, currentScheduledSlotId, modeRequests, deviceMode, now>>

\* selectDevice(device), from the list of the selector or from connectManual()
\* on the selector and on the discovery-error screen.  In the packaged
\* application it awaits set_device; in the web build it goes on at once.
selectDevice ==
    /\ selectorShown \/ discoveryErrorShown
    /\ ~connecting
    /\ showDeviceSelector' = FALSE
    /\ IF isTauriEnv
       THEN /\ connecting' = TRUE
            /\ setDeviceCalls' = setDeviceCalls + 1
            /\ last' = [NoOp EXCEPT !.op = "select"]
            /\ UNCHANGED <<deviceConfigured, discoveryError, error, currentInterval,
                           fetching, fetches, timers, interval>>
       ELSE /\ Cardinality(timers) < MaxTimers
            /\ deviceConfigured' = TRUE
            /\ discoveryError' = FALSE
            /\ error' = FALSE
            /\ startDashboard
            /\ last' = [NoOp EXCEPT !.op = "select", !.sent = fetchSends(isVisible),
                                    !.before = currentInterval]
            /\ UNCHANGED <<connecting, setDeviceCalls>>
    /\ UNCHANGED <<slotVars, storedSlots, storedScheduler>>
    /\ UNCHANGED clientVars
    /\ UNCHANGED <<isTauriEnv, discovering, loading, data, isVisible, schedulerEnabled,
                   currentScheduledSlotId, modeRequests, deviceMode, now>>

\* set_device returns: the rest of selectDevice
setDeviceDone(ok) ==
    /\ setDeviceCalls > 0
    /\ setDeviceCalls' = setDeviceCalls - 1
    /\ connecting' = FALSE
    /\ IF ok
       THEN /\ Cardinality(timers) < MaxTimers
            /\ deviceConfigured' = TRUE
            /\ discoveryError' = FALSE
            /\ error' = FALSE
            /\ startDashboard
            /\ last' = [NoOp EXCEPT !.op = "setDeviceDone", !.sent = fetchSends(isVisible),
                                    !.before = currentInterval]
            /\ UNCHANGED showDeviceSelector
       ELSE /\ error' = TRUE
            /\ showDeviceSelector' = TRUE
            /\ last' = [NoOp EXCEPT !.op = "setDeviceDone", !.raised = TRUE]
            /\ UNCHANGED <<deviceConfigured, discoveryError, currentInterval,
                           fetching, fetches, timers, interval>>
    /\ UNCHANGED <<slotVars, storedSlots, storedScheduler>>
    /\ UNCHANGED clientVars
    /\ UNCHANGED <<isTauriEnv, discovering, loading, data, isVisible, schedulerEnabled,
                   currentScheduledSlotId, modeRequests, deviceMode, now>>

\* Reessayer, on the error screen
retry ==
    /\ errorShown
    /\ error' = FALSE
    /\ loading' = TRUE
    /\ fetchData(isVisible)
    /\ last' = [NoOp EXCEPT !.op = "retry", !.sent = fetchSends(isVisible)]
    /\ UNCHANGED <<slotVars, storedSlots, storedScheduler>>
    /\ UNCHANGED clientVars
    /\ UNCHANGED <<isTauriEnv, discovering, deviceConfigured, discoveryError,
                   showDeviceSelector, connecting, setDeviceCalls, data,
                   currentInterval, interval, timers, isVisible, schedulerEnabled,
                   currentScheduledSlotId, modeRequests, deviceMode, now>>

\* Modifier l'adresse IP, on the error screen
modifyAddress ==
    /\ errorShown
    /\ error' = FALSE
    /\ deviceConfigured' = FALSE
    /\ discoveryError' = TRUE
    /\ timers' = clearInterval(timers, interval)
    /\ last' = [NoOp EXCEPT !.op = "modifyAddress"]
    /\ UNCHANGED <<slotVars, storedSlots, storedScheduler>>
    /\ UNCHANGED clientVars
    /\ UNCHANGED <<isTauriEnv, discovering, showDeviceSelector, connecting, setDeviceCalls,
                   loading, data, fetching, fetches, currentInterval, interval, isVisible,
                   schedulerEnabled, currentScheduledSlotId, modeRequests, deviceMode, now>>

(* The mode scheduler *)

\* formatHour(decimalHour): the hours and the minutes of "HH:MM"
formatHour(decimalHour) == <<decimalHour \div 60, decimalHour % 60>>

\* Math.abs
Abs(n) == IF n < 0 THEN -n ELSE n

\* slot.config.power ?? 800 and slot.config.cd_time ?? 300
powerOrDefault(config) == IF config.power = 0 THEN DEFAULT_POWER ELSE config.power

cdTimeOrDefault(config) == IF config.cd_time = 0 THEN DEFAULT_CD_TIME ELSE config.cd_time

\* Variant of signedPower that never negates
unsignedPower(config) == Abs(powerOrDefault(config))

\* slot.config.isCharge ? -Math.abs(power ?? 800) : Math.abs(power ?? 800)
signedPower(config) ==
    IF config.isCharge = "true" THEN -Abs(powerOrDefault(config))
    ELSE Abs(powerOrDefault(config))

\* the set_mode command checkScheduler issues for a slot (lines 281-292)
commandFor(slot) ==
    IF slot.mode = "Manual" /\ slot.config.present
    THEN [mode |-> "Manual",
          config |-> [kind |-> "manual_cfg", time_num |-> 0,
                      start_time |-> formatHour(slot.startHour),
                      end_time |-> formatHour(slot.endHour),
                      week_set |-> WEEK_SET, power |-> signedPower(slot.config),
                      enable |-> 1]]
    ELSE IF slot.mode = "Passive" /\ slot.config.present
    THEN [mode |-> "Passive",
          config |-> [kind |-> "passive_cfg", power |-> signedPower(slot.config),
                      cd_time |-> cdTimeOrDefault(slot.config)]]
    ELSE [mode |-> slot.mode, config |-> NoCfg]

\* Variant of schedulerActive that does not ask for a configured device
schedulerActiveWithoutDevice(enabled) == enabled

\* if (!schedulerEnabled || !deviceConfigured) return
schedulerActive(enabled) == enabled /\ deviceConfigured

\* Variant of alreadyApplied that remembers nothing
neverApplied(slot) == FALSE

\* if (currentScheduledSlotId === slot.id) return
alreadyApplied(slot) == currentScheduledSlotId = slot.id

\* whether checkScheduler() gets past its early returns
checkActs(enabled) ==
    LET slot == getCurrentSlot(timeSlots, now)
    IN  schedulerActive(enabled) /\ slot # NoSlot /\ ~alreadyApplied(slot)

\* Variant of checkCommand that waits for the first snapshot
checkCommandAfterSnapshot(enabled) ==
    LET slot == getCurrentSlot(timeSlots, now)
    IN  IF checkActs(enabled) /\ data.present /\ data.mode # slot.mode
        THEN commandFor(slot) ELSE NoCmd

\* the command checkScheduler() issues, NoCmd when it issues none
checkCommand(enabled) ==
    LET slot == getCurrentSlot(timeSlots, now)
    IN  IF checkActs(enabled) /\ data.mode # slot.mode THEN commandFor(slot) ELSE NoCmd

\* checkScheduler(), with the schedulerEnabled it reads.  applyMode() sends
\* the command and awaits the answer.
checkScheduler(enabled) ==
    LET slot == getCurrentSlot(timeSlots, now)
        cmd == checkCommand(enabled)
    IN  /\ currentScheduledSlotId' = IF checkActs(enabled) THEN slot.id
                                     ELSE currentScheduledSlotId
        /\ IF cmd # NoCmd
           THEN /\ Len(modeRequests) < MaxModeRequests
                /\ modeRequests' = Append(modeRequests, cmd)
           ELSE UNCHANGED modeRequests

\* the scheduler's timer (every 60 s, and 1 s after onMount) fires
checkFires ==
    /\ ~discovering
    /\ UNCHANGED timeSlots
    /\ checkScheduler(schedulerEnabled)
    /\ last' = [NoOp EXCEPT !.op = "check", !.cmd = checkCommand(schedulerEnabled),
                            !.done = checkActs(schedulerEnabled),
                            !.again = (last.op = "check"
                                       \/ (last.op = "toggle" /\ schedulerEnabled))]
    /\ UNCHANGED <<editingSlot, showSlotModal, draggingBoundary, nextId, keyOpens, edits,
                   storedSlots, storedScheduler>>
    /\ UNCHANGED clientVars
    /\ UNCHANGED <<isTauriEnv, discovering, deviceConfigured, discoveryError,
                   showDeviceSelector, connecting, setDeviceCalls, loading, error, data,
                   fetching, fetches, currentInterval, interval, timers, isVisible,
                   schedulerEnabled, deviceMode, now>>

\* toggleScheduler(), the checkbox of the dashboard
toggleScheduler ==
    /\ dashboardShown
    /\ schedulerEnabled' = ~schedulerEnabled
    /\ UNCHANGED timeSlots
    /\ saveTimeSlots(timeSlots)
    /\ checkScheduler(schedulerEnabled')
    /\ last' = [NoOp EXCEPT !.op = "toggle", !.writes = 1,
                            !.cmd = checkCommand(schedulerEnabled'),
                            !.done = checkActs(schedulerEnabled')]
    /\ UNCHANGED <<editingSlot, showSlotModal, draggingBoundary, nextId, keyOpens, edits>>
    /\ UNCHANGED clientVars
    /\ UNCHANGED <<isTauriEnv, discovering, deviceConfigured, discoveryError,
                   showDeviceSelector, connecting, setDeviceCalls, loading, error, data,
                   fetching, fetches, currentInterval, interval, timers, isVisible,
                   deviceMode, now>>

\* the sequence without its i-th element
removeAt(seq, i) == SubSeq(seq, 1, i - 1) \o SubSeq(seq, i + 1, Len(seq))

\* the set_mode request i returns: the rest of applyMode().  Accepted, the
\* device is in the commanded mode and applyMode awaits fetchData(); refused
\* or lost, the exception is logged.
setModeDone(i, ok) ==
    /\ i \in 1..Len(modeRequests)
    /\ modeRequests' = removeAt(modeRequests, i)
    /\ IF ok
       THEN /\ deviceMode' = modeRequests[i].mode
            /\ fetchData(isVisible)
            /\ last' = [NoOp EXCEPT !.op = "setModeDone", !.cmd = modeRequests[i],
                                    !.sent = fetchSends(isVisible)]
       ELSE /\ UNCHANGED <<deviceMode, fetching, fetches>>
            /\ last' = [NoOp EXCEPT !.op = "setModeDone", !.cmd = modeRequests[i],
                                    !.raised = TRUE]
    /\ UNCHANGED <<slotVars, storedSlots, storedScheduler>>
    /\ UNCHANGED clientVars
    /\ UNCHANGED <<isTauriEnv, discovering, deviceConfigured, discoveryError,
                   showDeviceSelector, connecting, setDeviceCalls, loading, error, data,
                   currentInterval, interval, timers, isVisible, schedulerEnabled,
                   currentScheduledSlotId, now>>

(* The environment *)

\* the mode of the device is changed from outside the application
externalModeChange(m) ==
    /\ deviceMode # m
    /\ deviceMode' = m
    /\ last' = [NoOp EXCEPT !.op = "external"]
    /\ UNCHANGED <<slotVars, storedSlots, storedScheduler>>
    /\ UNCHANGED clientVars
    /\ UNCHANGED <<isTauriEnv, discovering, deviceConfigured, discoveryError,
                   showDeviceSelector, connecting, setDeviceCalls, loading, error, data,
                   fetching, fetches, currentInterval, interval, timers, isVisible,
                   schedulerEnabled, currentScheduledSlotId, modeRequests, now>>

\* time passes: new Date() of getCurrentSlot() reads t
clockAdvances(t) ==
    /\ now # t
    /\ now' = t
    /\ last' = [NoOp EXCEPT !.op = "clock"]
    /\ UNCHANGED <<slotVars, storedSlots, storedScheduler>>
    /\ UNCHANGED clientVars
    /\ UNCHANGED <<isTauriEnv, discovering, deviceConfigured, discoveryError,
                   showDeviceSelector, connecting, setDeviceCalls, loading, error, data,
                   fetching, fetches, currentInterval, interval, timers, isVisible,
                   schedulerEnabled, currentScheduledSlotId, modeRequests, deviceMode>>

(* Specifications of the whole page *)

\* the handlers of the planning, behind the screens that show their controls:
\* the ribbon is part of the dashboard, the editor is drawn over any screen
planningStep(maxIds) ==
    \/ \E i \in 1..MaxLen(maxIds) : dashboardShown /\ openSlotEditor(i, 0)
    \/ \E m \in ModeInputs : editMode(m)
    \/ \E b \in ChargeInputs : editIsCharge(b)
    \/ cancelEdit
    \/ saveSlot
    \/ addSlotAfter(maxIds)

\* the session of a device: discovery, selection, polling
sessionStep(elapsedInputs) ==
    \/ \E found \in DiscoveryInputs : onMount(found)
    \/ timerFires
    \/ \E elapsed \in elapsedInputs, ok \in BOOLEAN, modeKnown \in BOOLEAN :
          fetchDone(elapsed, ok, modeKnown)
    \/ \E visible \in BOOLEAN : handleVisibilityChange(visible)
    \/ openDeviceSelector
    \/ selectDevice
    \/ \E ok \in BOOLEAN : setDeviceDone(ok)
    \/ retry
    \/ modifyAddress

\* the scheduler and what it depends on
schedulerStep ==
    \/ checkFires
    \/ toggleScheduler
    \/ \E i \in 1..MaxModeRequests, ok \in BOOLEAN : setModeDone(i, ok)
    \/ \E m \in ExternalModes : externalModeChange(m)
    \/ \E t \in ClockInputs : clockAdvances(t)

\* Sessions of the scheduler: a device that answers every dashboard request
\* within half a second, with its mode
NextScheduler ==
    \/ planningStep(MaxIds - 1)
    \/ \E found \in {"one", "many"} : onMount(found)
    \/ timerFires
    \/ fetchDone(998, TRUE, TRUE)
    \/ openDeviceSelector
    \/ selectDevice
    \/ \E ok \in BOOLEAN : setDeviceDone(ok)
    \/ schedulerStep

SpecScheduler == Init /\ [][NextScheduler]_vars

NextPoller ==
    \/ sessionStep(ElapsedInputs)
    \/ checkFires
    \/ toggleScheduler
    \/ \E i \in 1..MaxModeRequests, ok \in BOOLEAN : setModeDone(i, ok)

SpecPoller == (Init \/ InitWeb) /\ [][NextPoller]_vars

\* one time a dashboard request takes per polling period, in half
\* milliseconds: 499 ms, 1200 ms, 2000 ms, 5000 ms
PeriodInputs == {998, 2400, 4000, 10000}

\* the dashboard request in flight returns, with a snapshot or an exception
fetchReturns ==
    \E elapsed \in PeriodInputs, ok \in BOOLEAN, modeKnown \in BOOLEAN :
        fetchDone(elapsed, ok, modeKnown)

NextPollerFair ==
    \/ sessionStep(PeriodInputs)
    \/ checkFires
    \/ toggleScheduler
    \/ \E i \in 1..MaxModeRequests, ok \in BOOLEAN : setModeDone(i, ok)

\* The sessions of the poller in which every dashboard request returns in
\* the end
SpecPollerFair ==
    /\ Init \/ InitWeb
    /\ [][NextPollerFair]_vars
    /\ WF_vars(fetchReturns)

\* A list an earlier session stored, with the scheduler on: a Manual slot
\* that charges at a typed power, and a Passive slot that discharges at the
\* default power and countdown
StoredSlots ==
    <<[id |-> 1, startHour |-> 0, endHour |-> 720, mode |-> "Manual",
       config |-> [present |-> TRUE, power |-> 500, isCharge |-> "true", cd_time |-> 0]],
      [id |-> 2, startHour |-> 720, endHour |-> DAY_END, mode |-> "Passive",
       config |-> [present |-> TRUE, power |-> 0, isCharge |-> "false", cd_time |-> 0]]>>

\* The component as constructed, in the packaged application, on a later run
InitStored ==
    /\ storedSlots = StoredSlots
    /\ timeSlots = loadSavedConfigs(storedSlots)
    /\ editingSlot = NoSlot
    /\ showSlotModal = FALSE
    /\ draggingBoundary = 0
    /\ nextId = Len(StoredSlots)
    /\ keyOpens = 0
    /\ edits = 0
    /\ last = NoOp
    /\ storedScheduler = "true"
    /\ isTauriEnv = TRUE
    /\ discovering = TRUE
    /\ deviceConfigured = FALSE
    /\ discoveryError = FALSE
    /\ showDeviceSelector = FALSE
    /\ connecting = FALSE
    /\ setDeviceCalls = 0
    /\ loading = TRUE
    /\ error = FALSE
    /\ data = NoData
    /\ fetching = FALSE
    /\ fetches = 0
    /\ currentInterval = FAST_INTERVAL
    /\ interval = 0
    /\ timers = {}
    /\ isVisible = TRUE
    /\ schedulerEnabled = FALSE
    /\ currentScheduledSlotId = 0
    /\ modeRequests = << >>
    /\ deviceMode = "Auto"
    /\ now = 0
    /\ clientInit

\* what is picked and typed in the editor in the sessions of SpecCommand
DirectionInputs == {"true", "false"}

TypedPowers == {1200}

TypedCdTimes == {60}

\* Sessions that edit the configs of the stored slots while the scheduler
\* applies them
NextCommand ==
    \/ \E i \in 1..Len(StoredSlots) : dashboardShown /\ openSlotEditor(i, 0)
    \/ \E m \in Modes : editMode(m)
    \/ \E b \in DirectionInputs : editIsCharge(b)
    \/ \E p \in TypedPowers : editPower(p)
    \/ \E c \in TypedCdTimes : editCdTime(c)
    \/ cancelEdit
    \/ saveSlot
    \/ onMount("one")
    \/ timerFires
    \/ \E modeKnown \in BOOLEAN : fetchDone(998, TRUE, modeKnown)
    \/ checkFires
    \/ toggleScheduler
    \/ \E i \in 1..MaxModeRequests, ok \in BOOLEAN : setModeDone(i, ok)
    \/ \E t \in ClockInputs : clockAdvances(t)

SpecCommand == InitStored /\ [][NextCommand]_vars

----------------------------------------------------------------------------
(* Promises, timers and sockets of one sendCommand() *)


settled(cmd) == cmd.promise \in {"fulfilled", "rejected"}

\* resolve(v): the first of resolve and reject settles the promise, later
\* calls have no effect
resolve(cmd, v) ==
    IF cmd.promise = "pending" THEN [cmd EXCEPT !.promise = "fulfilled", !.value = v]
    ELSE cmd

\* reject(e)
reject(cmd, e) ==
    IF cmd.promise = "pending" THEN [cmd EXCEPT !.promise = "rejected", !.reason = e]
    ELSE cmd

\* clearTimeout(timeout)
clearTimeout(cmd) == [cmd EXCEPT !.timeout = IF @ = "armed" THEN "cleared" ELSE @]

\* client.close()
close(cmd) == [cmd EXCEPT !.client = "closed"]

\* Variant of sendCommand that arms no timer
sendCommandWithoutTimer(command) ==
    IF deviceIp = 0
    THEN [NoCommand EXCEPT !.request = command, !.promise = "rejected",
                           !.reason = "DeviceNotConfigured"]
    ELSE [NoCommand EXCEPT !.request = command, !.to = <<deviceIp, devicePort>>,
                           !.client = "open", !.sending = TRUE, !.promise = "pending"]

\* sendCommand(command) up to the end of the executor of its promise
sendCommand(command) ==
    IF deviceIp = 0
    THEN [NoCommand EXCEPT !.request = command, !.promise = "rejected",
                           !.reason = "DeviceNotConfigured"]
    ELSE [NoCommand EXCEPT !.request = command, !.to = <<deviceIp, devicePort>>,
                           !.client = "open", !.timeout = "armed", !.delay = TIMEOUT_MS,
                           !.sending = TRUE, !.promise = "pending"]

\* Variant of onTimeout that leaves the socket open
onTimeoutLeavingSocket(cmd) == reject([cmd EXCEPT !.timeout = "fired"], "Timeout")

\* the callback of the timer (lines 66-69)
onTimeout(cmd) == reject(close([cmd EXCEPT !.timeout = "fired"]), "Timeout")

\* the 'message' listener (lines 71-80): response.result || {} of a datagram
\* that parses, a parsing error otherwise
onMessage(cmd, msg) ==
    LET closed == close(clearTimeout(cmd))
    IN  IF msg = "notJson" THEN reject(closed, "Parse")
        ELSE IF msg = "noResult" THEN resolve(closed, EmptyObject)
        ELSE resolve(closed, [kind |-> "result", of |-> cmd.request.id,
                              from |-> cmd.to[1]])

\* the callback of client.send (lines 82-88).  When the timer has closed the
\* socket before the send ended, client.close() raises on the closed socket
\* and reject is not reached.
onSent(cmd, err) ==
    IF ~err THEN [cmd EXCEPT !.sending = FALSE]
    ELSE IF cmd.client = "closed" THEN [clearTimeout(cmd) EXCEPT !.sending = FALSE]
    ELSE reject(close(clearTimeout([cmd EXCEPT !.sending = FALSE])), "Send")

(* getDashboard() *)

\* Variant of awaited that does not wait
awaitedAtOnce(cmd) == TRUE

\* await sendCommand(..): the continuation runs once the promise is settled
awaited(cmd) == settled(cmd)

\* Variant of orEmpty that passes a failure on as undefined
orUndefined(cmd) == IF cmd.promise = "fulfilled" THEN cmd.value ELSE Undefined

\* await sendCommand(..).catch(() => ({})): the result, {} after a rejection
orEmpty(cmd) == IF cmd.promise = "fulfilled" THEN cmd.value ELSE EmptyObject

\* a continuation of some getDashboard() is ready to run
resumable(c) ==
    dashboards[c].pc = "awaiting" /\ awaited(commands[c][dashboards[c].k])

\* no continuation is ready: the event loop takes the next event
idleLoop == \A c \in Calls : ~resumable(c)

\* the return statement of getDashboard() (lines 101-109)
snapshotOf(d) ==
    [kind |-> "snapshot", device |-> d.device, battery |-> d.battery,
     energy |-> d.energy, mode |-> d.mode, meter |-> d.meter, wifi |-> d.wifi,
     timestamp |-> "HH:MM:SS"]

\* getDashboard() is called: it runs up to its first await
getDashboard(c) ==
    /\ idleLoop
    /\ dashboards[c].pc = "idle"
    /\ dashboards' = [dashboards EXCEPT ![c] =
          [@ EXCEPT !.pc = "awaiting", !.k = 1, !.requests = <<CommandOf(1)>>]]
    /\ commands' = [commands EXCEPT ![c][1] = sendCommand(CommandOf(1))]
    /\ UNCHANGED <<deviceIp, devicePort, discovery>>
    /\ UNCHANGED pageVars

\* the continuation of getDashboard() after its k-th await: the local of k
\* is assigned, then the next command is sent or the snapshot returned
resume(c) ==
    /\ resumable(c)
    /\ LET d == dashboards[c]
           k == d.k
           assigned == [d EXCEPT ![LocalOf(k)] = orEmpty(commands[c][k])]
       IN  IF k < REQUESTS
           THEN /\ dashboards' = [dashboards EXCEPT ![c] =
                      [assigned EXCEPT !.k = k + 1,
                                       !.requests = Append(@, CommandOf(k + 1))]]
                /\ commands' = [commands EXCEPT ![c][k + 1] = sendCommand(CommandOf(k + 1))]
           ELSE /\ dashboards' = [dashboards EXCEPT ![c] =
                      [assigned EXCEPT !.pc = "returned",
                                       !.returned = snapshotOf(assigned)]]
                /\ UNCHANGED commands
    /\ UNCHANGED <<deviceIp, devicePort, discovery>>
    /\ UNCHANGED pageVars

\* the timer of a sendCommand() fires
timeoutFires(c, k) ==
    /\ idleLoop
    /\ commands[c][k].timeout = "armed"
    /\ commands' = [commands EXCEPT ![c][k] = onTimeout(@)]
    /\ UNCHANGED <<deviceIp, devicePort, dashboards, discovery>>
    /\ UNCHANGED pageVars

\* a datagram arrives on the socket of a sendCommand() whose request was sent
messageArrives(c, k, msg) ==
    /\ idleLoop
    /\ commands[c][k].client = "open"
    /\ ~commands[c][k].sending
    /\ commands' = [commands EXCEPT ![c][k] = onMessage(@, msg)]
    /\ UNCHANGED <<deviceIp, devicePort, dashboards, discovery>>
    /\ UNCHANGED pageVars

\* the send of a sendCommand() ends, with an error or without
sendCompletes(c, k, err) ==
    /\ idleLoop
    /\ commands[c][k].sending
    /\ commands' = [commands EXCEPT ![c][k] = onSent(@, err)]
    /\ UNCHANGED <<deviceIp, devicePort, dashboards, discovery>>
    /\ UNCHANGED pageVars

\* setDevice(ip, port)
setDevice(ip, port) ==
    /\ idleLoop
    /\ deviceIp # ip
    /\ deviceIp' = ip
    /\ devicePort' = port
    /\ UNCHANGED <<commands, dashboards, discovery>>
    /\ UNCHANGED pageVars

\* getDevice()
getDevice == [ip |-> deviceIp, port |-> devicePort]

(* discoverDevices() *)

\* the entry pushed for a reply: { ip: rinfo.address, port: DEFAULT_PORT,
\* ...response.result }, where the fields of the result come last.  from is
\* the source address of the reply, kept for the statements about it.
entryOf(from, reply) ==
    [ip |-> IF reply.ip = 0 THEN from ELSE reply.ip,
     port |-> IF reply.port = 0 THEN DEFAULT_PORT ELSE reply.port,
     from |-> from]

\* devices.find(d => d.ip === rinfo.address)
known(devices, address) == \E i \in 1..Len(devices) : devices[i].ip = address

\* the 'message' listener (lines 23-37)
collect(devices, from, reply) ==
    IF reply.kind = "device" /\ ~known(devices, from)
    THEN Append(devices, entryOf(from, reply))
    ELSE devices

\* discoverDevices(timeout) is called: socket, listener, bind request, timer
discoverDevices(timeout) ==
    /\ idleLoop
    /\ discovery.pc = "idle"
    /\ discovery' = [NoDiscovery EXCEPT !.pc = "binding", !.client = "open",
                                        !.timer = "armed", !.delay = timeout]
    /\ UNCHANGED <<deviceIp, devicePort, commands, dashboards>>
    /\ UNCHANGED pageVars

\* the callback of client.bind (lines 39-47): the broadcast is sent
discoveryBound ==
    /\ idleLoop
    /\ discovery.pc = "binding"
    /\ discovery' = [discovery EXCEPT !.pc = "listening"]
    /\ UNCHANGED <<deviceIp, devicePort, commands, dashboards>>
    /\ UNCHANGED pageVars

\* a datagram arrives from a host during the discovery
discoveryReply(from, reply) ==
    /\ idleLoop
    /\ discovery.pc = "listening"
    /\ discovery.client = "open"
    /\ discovery.replies < MaxReplies
    /\ discovery' = [discovery EXCEPT
          !.replies = @ + 1,
          !.valid = IF reply.kind = "device" THEN @ \cup {from} ELSE @,
          !.devices = collect(@, from, reply)]
    /\ UNCHANGED <<deviceIp, devicePort, commands, dashboards>>
    /\ UNCHANGED pageVars

\* the timer of the discovery fires (lines 49-52)
discoveryEnds ==
    /\ idleLoop
    /\ discovery.pc = "listening"
    /\ discovery.timer = "armed"
    /\ discovery' = [discovery EXCEPT !.pc = "resolved", !.timer = "fired",
                                      !.client = "closed", !.result = discovery.devices]
    /\ UNCHANGED <<deviceIp, devicePort, commands, dashboards>>
    /\ UNCHANGED pageVars

(* Specifications of the client *)

\* what the event loop of the client may run next
dashboardStep(calls, hosts) ==
    \/ \E c \in calls : getDashboard(c)
    \/ \E c \in calls : resume(c)
    \/ \E c \in calls, k \in 1..REQUESTS : timeoutFires(c, k)
    \/ \E c \in calls, k \in 1..REQUESTS, msg \in MessageInputs : messageArrives(c, k, msg)
    \/ \E c \in calls, k \in 1..REQUESTS, err \in BOOLEAN : sendCompletes(c, k, err)
    \/ \E ip \in hosts : setDevice(ip, DEFAULT_PORT)

NextClient == dashboardStep(Calls, {1})

SpecClient == Init /\ [][NextClient]_vars

\* The same with the timers that are armed firing in the end
SpecClientFair ==
    /\ Init
    /\ [][dashboardStep({1}, {1})]_vars
    /\ \A k \in 1..REQUESTS : WF_vars(timeoutFires(1, k))
    /\ WF_vars(resume(1))

\* Calls during which the device is replaced: every send succeeds and
\* every reply that arrives parses
NextEndpoint ==
    \/ getDashboard(1)
    \/ resume(1)
    \/ \E k \in 1..REQUESTS : timeoutFires(1, k)
    \/ \E k \in 1..REQUESTS, msg \in {"result", "noResult"} : messageArrives(1, k, msg)
    \/ \E k \in 1..REQUESTS : sendCompletes(1, k, FALSE)
    \/ \E ip \in Hosts : setDevice(ip, DEFAULT_PORT)

SpecEndpoint == Init /\ [][NextEndpoint]_vars

NextDiscovery ==
    \/ discoverDevices(DISCOVERY_WINDOW)
    \/ discoveryBound
    \/ \E from \in Hosts, reply \in DiscoveryReplies : discoveryReply(from, reply)
    \/ discoveryEnds

SpecDiscovery == Init /\ [][NextDiscovery]_vars

----------------------------------------------------------------------------
(* Claims *)

Duration(slot) == slot.endHour - slot.startHour

\* the minutes of the day a clock can show
ClockMinutes == 0..(DAY_END - 1)

\* the slots of a list that contain the minute h
SlotsAt(slots, h) == {i \in 1..Len(slots) : slots[i].startHour <= h /\ h < slots[i].endHour}

\* C1: in every reachable state every slot lasts at least 15 minutes.
C1_MinDuration ==
    \A i \in 1..Len(timeSlots) : Duration(timeSlots[i]) >= MIN_SLOT_DURATION

\* C2: in every reachable state the list starts at 0, ends at 24 h and each
\* slot ends where the next one starts.
C2_Gapless ==
    /\ Len(timeSlots) >= 1
    /\ timeSlots[1].startHour = 0
    /\ timeSlots[Len(timeSlots)].endHour = DAY_END
    /\ \A i \in 1..(Len(timeSlots) - 1) : timeSlots[i].endHour = timeSlots[i + 1].startHour

\* C3: in every state reached by splits, deletes and drags the slots are in
\* strictly ascending order of startHour, each has startHour < endHour, and no
\* minute belongs to two slots.
C3_SortedNoOverlap ==
    /\ \A i \in 1..Len(timeSlots) : timeSlots[i].startHour < timeSlots[i].endHour
    /\ \A i \in 1..(Len(timeSlots) - 1) : timeSlots[i].startHour < timeSlots[i + 1].startHour
    /\ \A i, j \in 1..Len(timeSlots) :
          i < j => \/ timeSlots[i].endHour <= timeSlots[j].startHour
                   \/ timeSlots[j].endHour <= timeSlots[i].startHour

\* C4: in every reachable state and at every minute of the day exactly one
\* slot contains the current time, and getCurrentSlot returns it.
C4_UniqueCurrentSlot ==
    \A h \in ClockMinutes :
        /\ Cardinality(SlotsAt(timeSlots, h)) = 1
        /\ getCurrentSlot(timeSlots, h) # NoSlot
        /\ \A i \in SlotsAt(timeSlots, h) : getCurrentSlot(timeSlots, h) = timeSlots[i]

\* C5: a deleteSlot that finds a single slot changes nothing and raises
\* nothing, and the list is never empty.
C5_DeleteLastRefused ==
    /\ [](Len(timeSlots) >= 1)
    /\ [][(last'.op = "delete" /\ Len(timeSlots) = 1)
            => /\ ~last'.done /\ ~last'.raised
               /\ UNCHANGED <<timeSlots, storedSlots, editingSlot, showSlotModal>>]_vars

\* C5 witness: deleteSlot has just been refused on a list of one slot.
C5_Witness ==
    last.op = "delete" /\ ~last.done /\ Len(timeSlots) = 1 /\ showSlotModal

\* C6: a deleteSlot on two or more slots removes the target only; the previous
\* slot takes the target's endHour, or, when the target is first, the following
\* slot's startHour becomes 0; a single remaining slot is [0, 24); ids, modes and
\* configs of the remaining slots and every other bound are unchanged.
C6_DeleteMerges ==
    [][(last'.op = "delete" /\ Len(timeSlots) >= 2)
        => LET idx == findIndex(timeSlots, editingSlot.id)
               n == Len(timeSlots)
               from(j) == IF j < idx THEN j ELSE j + 1
           IN  /\ last'.done /\ last'.idx = idx /\ idx >= 1
               /\ Len(timeSlots') = n - 1
               /\ \A j \in 1..(n - 1) :
                     /\ timeSlots'[j].id = timeSlots[from(j)].id
                     /\ timeSlots'[j].mode = timeSlots[from(j)].mode
                     /\ timeSlots'[j].config = timeSlots[from(j)].config
                     /\ timeSlots'[j].startHour =
                           IF n = 2 \/ (idx = 1 /\ j = 1) THEN 0
                           ELSE timeSlots[from(j)].startHour
                     /\ timeSlots'[j].endHour =
                           IF n = 2 THEN DAY_END
                           ELSE IF idx > 1 /\ j = idx - 1 THEN timeSlots[idx].endHour
                           ELSE timeSlots[from(j)].endHour]_vars

\* C6 witness: the middle slot of three has just been deleted, and the first
\* slot, of another mode than its neighbour, has absorbed it.
C6_Witness ==
    /\ last.op = "delete" /\ last.done /\ last.idx = 2
    /\ Len(timeSlots) = 2
    /\ timeSlots[1].mode # timeSlots[2].mode

\* C7: a split lengthens the list by one, shrinks the target [start, end) to
\* [start, mid) and inserts [mid, end) right after it under a fresh id, with mid
\* the midpoint rounded to the 5-minute grid; the new slot has the target's mode
\* and config; the other slots are unchanged.
C7_SplitInTwo ==
    [][(last'.op = "split" /\ last'.done)
        => LET idx == findIndex(timeSlots, editingSlot.id)
               n == Len(timeSlots)
               target == timeSlots[idx]
               mid == timeSlots'[idx].endHour
           IN  /\ Len(timeSlots') = n + 1
               /\ timeSlots'[idx].id = target.id
               /\ timeSlots'[idx].startHour = target.startHour
               /\ mid % FIVE_MINUTES = 0
               /\ 2 * mid - (target.startHour + target.endHour) \in (0 - FIVE_MINUTES)..FIVE_MINUTES
               /\ timeSlots'[idx + 1].startHour = mid
               /\ timeSlots'[idx + 1].endHour = target.endHour
               /\ \A j \in 1..n : timeSlots'[idx + 1].id # timeSlots[j].id
               /\ timeSlots'[idx + 1].mode = timeSlots'[idx].mode
               /\ timeSlots'[idx + 1].config = timeSlots'[idx].config
               /\ \A j \in 1..(idx - 1) : timeSlots'[j] = timeSlots[j]
               /\ \A j \in (idx + 1)..n : timeSlots'[j + 1] = timeSlots[j]]_vars

\* C8: a split of a slot that lasts 5 minutes or less leaves the list unchanged.
C8_ShortSplitRefused ==
    [][(last'.op = "split"
          /\ findIndex(timeSlots, editingSlot.id) > 0
          /\ Duration(timeSlots[findIndex(timeSlots, editingSlot.id)]) <= FIVE_MINUTES)
        => UNCHANGED timeSlots]_vars

\* C9: after a split of a slot that lasts more than 5 minutes and whose bounds
\* are on the 5-minute grid, the midpoint lies strictly between the bounds:
\* both halves have a positive duration.
C9_MidpointInside ==
    (last.op = "split" /\ last.done)
        => LET start == timeSlots[last.idx].startHour
               mid == last.hour
               end == timeSlots[last.idx + 1].endHour
           IN  (end - start > FIVE_MINUTES /\ start % FIVE_MINUTES = 0 /\ end % FIVE_MINUTES = 0)
                  => /\ start < mid /\ mid < end
                     /\ timeSlots[last.idx].endHour = mid
                     /\ timeSlots[last.idx + 1].startHour = mid
                     /\ Duration(timeSlots[last.idx]) > 0
                     /\ Duration(timeSlots[last.idx + 1]) > 0

\* C9 witness: a slot of 15 minutes, whose midpoint is half way between two
\* grid values, has just been split.
C9_Witness ==
    /\ last.op = "split" /\ last.done
    /\ timeSlots[last.idx + 1].endHour - timeSlots[last.idx].startHour = MIN_SLOT_DURATION
    /\ timeSlots[last.idx].startHour % FIVE_MINUTES = 0

\* C10: every onDrag sets the boundary inside [left.startHour + 0.25,
\* right.endHour - 0.25], so that both slots keep at least 15 minutes; a
\* proposed 0 with the left slot starting at 0 gives 0.25.
C10_DragClamped ==
    [][(last'.op = "drag" /\ last'.done)
        => LET i == draggingBoundary
               boundary == timeSlots'[i].endHour
           IN  /\ boundary >= timeSlots[i].startHour + MIN_SLOT_DURATION
               /\ boundary <= timeSlots[i + 1].endHour - MIN_SLOT_DURATION
               /\ Duration(timeSlots'[i]) >= MIN_SLOT_DURATION
               /\ Duration(timeSlots'[i + 1]) >= MIN_SLOT_DURATION
               /\ (last'.hour = 0 /\ timeSlots[i].startHour = 0)
                     => boundary = MIN_SLOT_DURATION]_vars

\* C11: an onDrag of boundary i sets the end of slot i and the start of slot
\* i + 1 to the same value and changes nothing else: not the start of slot i,
\* the end of slot i + 1, the ids, modes and configs of the two slots, the other
\* slots or the length of the list.
C11_DragFrame ==
    [][(last'.op = "drag" /\ last'.done)
        => LET i == draggingBoundary
           IN  /\ Len(timeSlots') = Len(timeSlots)
               /\ timeSlots'[i].endHour = timeSlots'[i + 1].startHour
               /\ timeSlots'[i] = [timeSlots[i] EXCEPT !.endHour = timeSlots'[i].endHour]
               /\ timeSlots'[i + 1] =
                     [timeSlots[i + 1] EXCEPT !.startHour = timeSlots'[i].endHour]
               /\ \A j \in 1..Len(timeSlots) : j \notin {i, i + 1} => timeSlots'[j] = timeSlots[j]]_vars

\* C11 witness: the second boundary of a list of three slots has just been
\* dragged to another place.
C11_Witness ==
    /\ last.op = "drag" /\ last.done /\ last.idx = 2
    /\ Len(timeSlots) = 3
    /\ timeSlots[2].endHour = timeSlots[3].startHour
    /\ storedSlots # timeSlots

Range(seq) == {seq[i] : i \in 1..Len(seq)}

\* the slot the clock is in
currentSlot == getCurrentSlot(timeSlots, now)

\* C13: a run of checkScheduler that directly follows another run of
\* checkScheduler (the periodic one, or the one toggleScheduler makes when it
\* enables the scheduler), with nothing in between, issues no command and
\* changes no state of the page, of the storage or of the device.
C13_SecondCheckNoOp ==
    [][(last'.op = "check" /\ last'.again) =>
          /\ last'.cmd = NoCmd
          /\ ~last'.done
          /\ UNCHANGED <<slotVars, storedSlots, storedScheduler, deviceVars>>]_vars

\* a second check in a row was made while the scheduler is on, a command is
\* in flight and the snapshot's mode is not the current slot's mode
C13_Witness ==
    /\ last.op = "check" /\ last.again
    /\ schedulerEnabled /\ deviceConfigured
    /\ currentSlot # NoSlot
    /\ data.mode # currentSlot.mode
    /\ Len(modeRequests) = 1

\* C14: at every periodic check made with the scheduler on and a device
\* configured, when the mode of the current slot is not the mode the device is
\* in, a command for the slot's mode is issued.  Stated for the checks made
\* when nothing is pending: no command and no dashboard request in flight, and
\* the last snapshot shows the mode the device is in.
C14_CommandWhenModesDiffer ==
    [][(/\ last'.op = "check"
        /\ schedulerEnabled /\ deviceConfigured
        /\ currentSlot # NoSlot
        /\ modeRequests = << >> /\ fetches = 0
        /\ data.mode = deviceMode
        /\ currentSlot.mode # deviceMode)
          => last'.cmd.mode = currentSlot.mode]_vars

\* C15: a run of checkScheduler (periodic, or made by toggleScheduler) marks
\* a slot as last applied only when the snapshot of the device shows the
\* slot's mode: a run that sends a command leaves the mark as it was.
C15_MarkedOnceAligned ==
    [][(/\ last'.op \in {"check", "toggle"}
        /\ currentScheduledSlotId' # currentScheduledSlotId)
          => (/\ currentScheduledSlotId' = currentSlot.id
              /\ data.mode = currentSlot.mode
              /\ last'.cmd = NoCmd)]_vars

\* C16: a run of checkScheduler made while the scheduler is off or no device
\* is configured issues no command and leaves the last-applied slot id, the
\* commands in flight and the slot list as they were.
C16_NoOpWhenInactive ==
    [][(last'.op = "check" /\ (~schedulerEnabled \/ ~deviceConfigured)) =>
          /\ last'.cmd = NoCmd
          /\ ~last'.done
          /\ UNCHANGED <<currentScheduledSlotId, modeRequests, timeSlots>>]_vars

\* a check was made with the scheduler on and no device configured, in a slot
\* that is not marked and whose mode the snapshot does not show
C16_Witness ==
    /\ last.op = "check" /\ last.cmd = NoCmd
    /\ schedulerEnabled /\ ~deviceConfigured
    /\ currentSlot # NoSlot
    /\ currentScheduledSlotId # currentSlot.id
    /\ data.mode # currentSlot.mode

\* C17: the command a run of checkScheduler issues carries the mode of the
\* current slot.  For a Manual or Passive slot with a config its power is the
\* magnitude of config.power (800 when absent), negative when isCharge is true
\* and positive otherwise; Manual also carries the slot's start and end as
\* hours and minutes, weekday mask 127, time_num 0 and enable 1; Passive
\* carries cd_time (300 when absent).  For Auto and AI no config is sent.
C17_CommandContent ==
    [][(last'.op \in {"check", "toggle"} /\ last'.cmd # NoCmd) =>
          LET slot == currentSlot
              cmd == last'.cmd
              magnitude == IF slot.config.power = 0 THEN 800
                           ELSE IF slot.config.power < 0 THEN 0 - slot.config.power
                           ELSE slot.config.power
              power == IF slot.config.isCharge = "true" THEN 0 - magnitude ELSE magnitude
          IN  /\ cmd.mode = slot.mode
              /\ cmd \in Range(modeRequests')
              /\ (slot.mode = "Manual" /\ slot.config.present) =>
                    cmd.config = [kind |-> "manual_cfg", time_num |-> 0,
                                  start_time |-> <<slot.startHour \div 60, slot.startHour % 60>>,
                                  end_time |-> <<slot.endHour \div 60, slot.endHour % 60>>,
                                  week_set |-> 127, power |-> power, enable |-> 1]
              /\ (slot.mode = "Passive" /\ slot.config.present) =>
                    cmd.config = [kind |-> "passive_cfg", power |-> power,
                                  cd_time |-> IF slot.config.cd_time = 0 THEN 300
                                              ELSE slot.config.cd_time]
              /\ slot.mode \in {"Auto", "AI"} => cmd.config = NoCfg]_vars

\* a periodic check issued the command of the stored Manual slot, which
\* charges at 500 W from 00:00 to 12:00
C17_Witness ==
    /\ last.op = "check"
    /\ last.cmd.mode = "Manual"
    /\ last.cmd.config.kind = "manual_cfg"
    /\ last.cmd.config.power = 0 - 500
    /\ last.cmd.config.start_time = <<0, 0>>
    /\ last.cmd.config.end_time = <<12, 0>>
    /\ last.cmd.config.week_set = WEEK_SET

\* C18: at most one dashboard request is in flight at any time, fetching is
\* set exactly while it is, and a handler that calls fetchData() while a
\* request is in flight sends none, whichever handler it is.
C18_OneFetchInFlight ==
    /\ [](fetches <= 1 /\ (fetching <=> fetches = 1))
    /\ [][fetches' > fetches => (fetches = 0 /\ fetches' = 1)]_vars
    /\ [][(last'.op \in {"fire", "retry", "visibility", "setModeDone", "select",
                          "setDeviceDone", "mount"} /\ fetches > 0)
             => (~last'.sent /\ fetches' = fetches)]_vars

\* applyMode() called fetchData() in a visible window while the request of a
\* timer was in flight, and sent nothing
C18_Witness ==
    /\ last.op = "setModeDone" /\ ~last.raised /\ ~last.sent
    /\ isVisible
    /\ fetches = 1

\* the policy of the interval: 30000 ms after a failure, else 3000, 5000 and
\* 10000 ms for a time below 500, 2000 and 5000 units, else 30000 ms; the
\* time is given in units of 1 / perMs milliseconds
Policy(failed, time, perMs) ==
    IF failed THEN 30000
    ELSE IF time < 500 * perMs THEN 3000
    ELSE IF time < 2000 * perMs THEN 5000
    ELSE IF time < 5000 * perMs THEN 10000
    ELSE 30000

\* C19, as stated: after every completed fetchData the interval is the one
\* the policy gives for the time the request took.
C19_PolicyOnElapsed ==
    [][last'.op = "fetchDone" =>
          currentInterval' = Policy(last'.hasError, last'.elapsed, 2)]_vars

\* C19, amended: after every completed fetchData the interval is the one the
\* policy gives for the time the request took rounded to the nearest
\* millisecond (halves up), which is the time fetchData measures.
C19_PolicyOnMeasured ==
    [][last'.op = "fetchDone" =>
          /\ 2 * last'.responseTime \in {last'.elapsed, last'.elapsed + 1}
          /\ currentInterval' = Policy(last'.hasError, last'.responseTime, 1)]_vars

\* a request answered after 499.5 ms was measured as 500 ms and selected the
\* 5000 ms interval
C19_Witness ==
    /\ last.op = "fetchDone" /\ ~last.hasError
    /\ last.elapsed = 999 /\ last.responseTime = 500
    /\ currentInterval = 5000

\* C20: at any moment at most one poll timer is armed, and an armed timer
\* has the period currentInterval.
C20_OneTimer ==
    /\ Cardinality(timers) <= 1
    /\ \A t \in timers : t.period = currentInterval

\* C21: while the device selector opened by openDeviceSelector is shown and
\* no device is configured, no poll timer is armed.
C21_NoTimerWhileSelecting ==
    (showDeviceSelector /\ ~deviceConfigured) => timers = {}

\* C22: a dashboard request that completes while the device selector is
\* shown and no device is configured (the poller was stopped after the request
\* was sent) publishes nothing: data and error stay as they were.
C22_StaleResultDiscarded ==
    [][(last'.op = "fetchDone" /\ showDeviceSelector /\ ~deviceConfigured)
          => UNCHANGED <<data, error>>]_vars

\* C23: a handler that selects a device and runs startDashboard() (onMount
\* with a single device or in the web build, selectDevice) leaves currentInterval
\* at 3000 ms whatever it was, arms exactly one timer, of period 3000 ms, and
\* keeps its handle.
C23_SelectionResetsInterval ==
    [][(last'.op \in {"mount", "select", "setDeviceDone"} /\ last'.before # 0) =>
          /\ deviceConfigured'
          /\ currentInterval' = 3000
          /\ timers \subseteq timers'
          /\ Cardinality(timers' \ timers) = 1
          /\ \A t \in timers' \ timers : t.period = 3000 /\ t.id = interval']_vars

\* a device was selected while the interval was 30000 ms
C23_Witness ==
    /\ last.op \in {"select", "setDeviceDone"} /\ last.before = 30000
    /\ deviceConfigured
    /\ currentInterval = 3000
    /\ \E t \in timers : t.id = interval /\ t.period = 3000

\* the sendCommand() calls made so far
called == {ck \in Calls \X (1..REQUESTS) : commands[ck[1]][ck[2]].promise # "none"}

\* C24: every sendCommand that opened a socket has closed it by the time its
\* promise is settled, on each exit path (reply, parsing error, send error,
\* timeout), and a settled promise is never settled again
C24_SocketClosedWhenSettled ==
    /\ [](\A ck \in called :
            LET cmd == commands[ck[1]][ck[2]]
            IN  (settled(cmd) /\ cmd.client # "none") => cmd.client = "closed")
    /\ [][\A ck \in called :
            LET cmd == commands[ck[1]][ck[2]]
                cmdNext == commands'[ck[1]][ck[2]]
            IN  settled(cmd) =>
                  /\ cmdNext.promise = cmd.promise
                  /\ cmdNext.value = cmd.value
                  /\ cmdNext.reason = cmd.reason]_vars

\* one call whose commands ended on each of the exit paths, all sockets closed
C24_Witness ==
    /\ \A r \in {"Timeout", "Parse", "Send"} :
          \E ck \in called : LET cmd == commands[ck[1]][ck[2]]
                             IN  cmd.promise = "rejected" /\ cmd.reason = r
                                  /\ cmd.client = "closed"
    /\ \E ck \in called : LET cmd == commands[ck[1]][ck[2]]
                          IN  cmd.promise = "fulfilled" /\ cmd.client = "closed"

\* the commands of call 1 that were rejected by their timer
timedOut == {k \in 1..REQUESTS : commands[1][k].reason = "Timeout"}

\* C25: every sendCommand settles in the end, its timer being armed for
\* 5000 ms at dispatch and rejecting the promise with a timeout error when it
\* fires first; so a getDashboard call returns in the end, after at most six
\* timeouts, its six commands settled and no timer left armed
C25_EverySendSettles ==
    /\ \A k \in 1..REQUESTS :
          (commands[1][k].promise = "pending") ~> settled(commands[1][k])
    /\ (dashboards[1].pc = "awaiting") ~> (dashboards[1].pc = "returned")
    /\ [](\A k \in 1..REQUESTS :
            /\ commands[1][k].promise = "pending" =>
                  commands[1][k].timeout = "armed" /\ commands[1][k].delay = TIMEOUT_MS
            /\ commands[1][k].timeout = "fired" => settled(commands[1][k]))
    /\ [][\A k \in 1..REQUESTS :
            (commands[1][k].promise = "pending" /\ commands'[1][k].timeout = "fired")
               => (commands'[1][k].promise = "rejected" /\ commands'[1][k].reason = "Timeout")]_vars
    /\ [](dashboards[1].pc = "returned" =>
            \A k \in 1..REQUESTS : settled(commands[1][k]) /\ commands[1][k].timeout # "armed")

\* a call that returned after its six commands timed out
C25_Witness ==
    /\ dashboards[1].pc = "returned"
    /\ timedOut = 1..REQUESTS

\* C26: a getDashboard call made while no device is configured fails with
\* DeviceNotConfigured and returns no snapshot
C26_FailsWhenNotConfigured ==
    \A c \in Calls :
        commands[c][1].reason = "DeviceNotConfigured" =>
            /\ dashboards[c].pc # "returned"
            /\ dashboards[c].returned.kind # "snapshot"

\* the commands of a call whose promise is pending
outstanding(c) == {k \in 1..REQUESTS : commands[c][k].promise = "pending"}

\* device info, energy status, battery status, wifi status, mode, meter status
FixedOrder ==
    <<"Marstek.GetDevice", "ES.GetStatus", "Bat.GetStatus",
      "Wifi.GetStatus", "ES.GetMode", "EM.GetStatus">>

\* C27: one getDashboard call sends its six commands in the order device
\* info, energy status, battery status, wifi status, mode, meter status, the
\* next one only once the one before is settled: at most one is outstanding
C27_OneAtATimeInOrder ==
    /\ [](\A c \in Calls :
            LET sent == dashboards[c].requests
            IN  /\ Len(sent) <= Len(FixedOrder)
                /\ \A i \in 1..Len(sent) :
                      /\ sent[i].method = FixedOrder[i]
                      /\ commands[c][i].request = sent[i]
                      /\ i < Len(sent) => settled(commands[c][i])
                /\ \A k \in 1..REQUESTS : k > Len(sent) => commands[c][k] = NoCommand
                /\ Cardinality(outstanding(c)) <= 1)
    /\ [][\A c \in Calls :
            Len(dashboards'[c].requests) > Len(dashboards[c].requests) =>
                /\ Len(dashboards'[c].requests) = Len(dashboards[c].requests) + 1
                /\ outstanding(c) = {}]_vars

\* the sixth command is outstanding after the five before it ended on a
\* reply, a parsing error, a send error and a timeout
C27_Witness ==
    \E c \in Calls :
        /\ Len(dashboards[c].requests) = REQUESTS
        /\ outstanding(c) = {REQUESTS}
        /\ \E k \in 1..(REQUESTS - 1) : commands[c][k].promise = "fulfilled"
        /\ \A r \in {"Timeout", "Parse", "Send"} :
              \E k \in 1..(REQUESTS - 1) : commands[c][k].reason = r

\* what the field of the k-th command is to hold: its result, {} if it failed
fieldFor(c, k) ==
    IF commands[c][k].promise = "fulfilled" THEN commands[c][k].value ELSE EmptyObject

\* C28: getDashboard never fails: whatever the endings of its six commands
\* it returns a snapshot whose fields device, battery, energy, mode, meter and
\* wifi each hold the result of their command or {} (never undefined), with a
\* timestamp; the failure of one command leaves the other fields as they are
C28_SnapshotAlwaysComplete ==
    /\ [](\A c \in Calls :
            dashboards[c].pc = "returned" =>
                LET s == dashboards[c].returned
                IN  /\ s.kind = "snapshot"
                    /\ s.device = fieldFor(c, 1)
                    /\ s.energy = fieldFor(c, 2)
                    /\ s.battery = fieldFor(c, 3)
                    /\ s.wifi = fieldFor(c, 4)
                    /\ s.mode = fieldFor(c, 5)
                    /\ s.meter = fieldFor(c, 6)
                    /\ \A f \in {s.device, s.energy, s.battery, s.wifi, s.mode, s.meter} :
                          f.kind \in {"result", "empty"}
                    /\ s.timestamp # "")
    /\ [][\A c \in Calls :
            (dashboards[c].pc = "awaiting" /\ dashboards'[c].pc # "awaiting") =>
                (dashboards'[c].pc = "returned" /\ settled(commands[c][REQUESTS]))]_vars

\* the battery command timed out and the five others were answered: battery
\* is {} and the other fields hold their results
C28_Witness ==
    \E c \in Calls :
        LET s == dashboards[c].returned
        IN  /\ dashboards[c].pc = "returned"
            /\ commands[c][3].reason = "Timeout"
            /\ s.battery = EmptyObject
            /\ s.device.kind = "result" /\ s.device.of = 1
            /\ s.energy.kind = "result" /\ s.energy.of = 2
            /\ s.wifi.kind = "result" /\ s.wifi.of = 4
            /\ s.mode.kind = "result" /\ s.mode.of = 5
            /\ s.meter.kind = "result" /\ s.meter.of = 6

\* the entries of a list of devices that a reply from the host produced
entriesFrom(devices, host) == {i \in 1..Len(devices) : devices[i].from = host}

\* C29: in one discovery, whatever the replies hold, the list has at most
\* one entry per source address: the first valid reply of a host is kept and
\* its later replies are ignored
C29_OneEntryPerSource ==
    \A host \in Hosts :
        /\ Cardinality(entriesFrom(discovery.devices, host)) <= 1
        /\ Cardinality(entriesFrom(discovery.result, host)) <= 1

\* C30: discoverDevices resolves only when its timer fires, never on a
\* reply; its result then has an entry for every host that sent a valid
\* reply before, a reply without device or that does not parse changes
\* nothing and does not end the collection, and without replies the result
\* is the empty list
C30_ListensForTheWindow ==
    /\ [][/\ (discovery.pc # "resolved" /\ discovery'.pc = "resolved") =>
                /\ discovery.timer = "armed" /\ discovery'.timer = "fired"
                /\ discovery'.replies = discovery.replies
          /\ discovery'.replies > discovery.replies =>
                /\ discovery'.pc = "listening"
                /\ discovery'.devices # discovery.devices =>
                      discovery'.valid # {}]_vars
    /\ [](discovery.pc = "resolved" =>
            /\ discovery.result = discovery.devices
            /\ discovery.replies = 0 => discovery.result = << >>
            /\ \A host \in discovery.valid :
                  \E i \in 1..Len(discovery.result) :
                      discovery.result[i].from = host)

\* C31: a failure of set_device and a failure of the set_mode request of
\* applyMode reach the caller: after the first the device is not selected,
\* the selector is back and the error is set; after the second the error is
\* set
C31_FailuresSurfaced ==
    [][/\ (last'.op = "setDeviceDone" /\ last'.raised) =>
              /\ ~deviceConfigured'
              /\ showDeviceSelector'
              /\ error'
       /\ (last'.op = "setModeDone" /\ last'.raised) => error']_vars

\* C32: no set_mode request is sent while a dashboard request is in flight,
\* and none is in flight when the poller sends one: at most one request to
\* the device is outstanding
C32_OneDeviceRequest == fetches + Len(modeRequests) <= 1

\* C33: saveSlot changes no more than the mode and the config of a slot: the
\* length of the list, the order of the slots and every startHour and endHour
\* are after saveSlot what they were just before
C33_SaveKeepsBoundaries ==
    [][last'.op = "save" =>
          /\ Len(timeSlots') = Len(timeSlots)
          /\ \A i \in 1..Len(timeSlots) :
                /\ timeSlots'[i].id = timeSlots[i].id
                /\ timeSlots'[i].startHour = timeSlots[i].startHour
                /\ timeSlots'[i].endHour = timeSlots[i].endHour]_vars

\* C34: a split leaves the mode and the config the list holds as they are:
\* every slot that was in the list keeps its mode and config, edits of the
\* editor that were not saved included, and the new half has the mode and
\* config the target had in the list
C34_SplitKeepsModes ==
    [][(last'.op = "split" /\ last'.done) =>
          LET idx == last'.idx
          IN  /\ Len(timeSlots') = Len(timeSlots) + 1
              /\ \A i \in 1..Len(timeSlots) :
                    LET j == IF i <= idx THEN i ELSE i + 1
                    IN  /\ timeSlots'[j].mode = timeSlots[i].mode
                        /\ timeSlots'[j].config = timeSlots[i].config
              /\ timeSlots'[idx + 1].mode = timeSlots[idx].mode
              /\ timeSlots'[idx + 1].config = timeSlots[idx].config]_vars

\* C35: from the default list, after splits, deletes and drags of
\* boundaries, every startHour and every endHour is a whole multiple of five
\* minutes, the bounds a drag was clamped to included
C35_BoundsOnFiveMinutes ==
    \A i \in 1..Len(timeSlots) :
        /\ timeSlots[i].startHour % FIVE_MINUTES = 0
        /\ timeSlots[i].endHour % FIVE_MINUTES = 0

\* a drag towards the left edge was clamped a quarter of an hour after the
\* start of the slot on its left, a start that an earlier drag from a pointer
\* off the grid had set
C35_Witness ==
    /\ last.op = "drag" /\ last.done /\ last.hour = 0
    /\ timeSlots[last.idx].startHour % MIN_SLOT_DURATION # 0
    /\ timeSlots[last.idx].endHour = timeSlots[last.idx].startHour + MIN_SLOT_DURATION
    /\ timeSlots[last.idx + 1].startHour = timeSlots[last.idx].endHour

\* C36: the flag of the request in flight is cleared in the end: the
\* fetchData that set it resets it when its dashboard request returns, with
\* a snapshot or a failure, and a tick of the poll timer that finds the
\* window visible and no request in flight sends a new request
C36_FlagCleared ==
    /\ fetching ~> ~fetching
    /\ [](fetching <=> fetches > 0)
    /\ [][last'.op = "fetchDone" => ~fetching']_vars
    /\ [][(last'.op = "fire" /\ isVisible /\ ~fetching) =>
             (last'.sent /\ fetching' /\ fetches' = fetches + 1)]_vars

\* a tick of the timer has sent a request after an earlier one had failed
C36_Witness ==
    /\ last.op = "fire" /\ last.sent
    /\ error /\ ~loading
    /\ fetching /\ fetches = 1

\* C37: every entry of the list discoverDevices builds and returns has the
\* source address of its reply as ip and 30000 as port, whatever fields the
\* result of the reply holds
C37_EntryFromSource ==
    \A list \in {discovery.devices, discovery.result} :
        \A i \in 1..Len(list) :
            /\ list[i].ip = list[i].from
            /\ list[i].port = DEFAULT_PORT

\* C38: a run of checkScheduler made with the scheduler on and a device
\* configured before any snapshot was received issues the command of the
\* current slot and marks the slot as last applied, whatever mode the device
\* is in
C38_CommandBeforeSnapshot ==
    [][(/\ last'.op = "check"
        /\ schedulerEnabled /\ deviceConfigured
        /\ ~data.present
        /\ currentSlot # NoSlot)
          => (/\ last'.cmd # NoCmd
              /\ last'.cmd.mode = currentSlot.mode
              /\ last'.cmd \in Range(modeRequests')
              /\ currentScheduledSlotId' = currentSlot.id)]_vars

\* C38, amended: the same for the runs made while the current slot is not
\* yet marked as last applied; a run that finds it marked issues nothing
C38_CommandBeforeSnapshotUnmarked ==
    [][(/\ last'.op = "check"
        /\ schedulerEnabled /\ deviceConfigured
        /\ ~data.present
        /\ currentSlot # NoSlot)
          => IF currentScheduledSlotId # currentSlot.id
             THEN /\ last'.cmd # NoCmd
                  /\ last'.cmd.mode = currentSlot.mode
                  /\ last'.cmd \in Range(modeRequests')
                  /\ currentScheduledSlotId' = currentSlot.id
             ELSE /\ last'.cmd = NoCmd
                  /\ UNCHANGED <<currentScheduledSlotId, modeRequests>>]_vars

\* before any snapshot a check has issued the command of the current slot
\* and marked it while the device was in the slot's mode already
C38_Witness ==
    /\ last.op = "check" /\ last.cmd # NoCmd
    /\ ~data.present
    /\ currentSlot # NoSlot
    /\ last.cmd.mode = currentSlot.mode
    /\ deviceMode = currentSlot.mode
    /\ currentScheduledSlotId = currentSlot.id
    /\ last.cmd \in Range(modeRequests)

\* the endpoints the commands of a call were sent to
endpointsOf(c) ==
    {commands[c][k].to : k \in {i \in 1..REQUESTS : commands[c][i].client # "none"}}

\* the hosts the results in the snapshot of a call came from
sourcesOf(c) ==
    LET s == dashboards[c].returned
    IN  {f.from : f \in {g \in {s.device, s.battery, s.energy, s.mode, s.meter, s.wifi} :
                              g.kind = "result"}}

\* C39: the six commands of one getDashboard call go to one endpoint, a
\* setDevice made during the call notwithstanding, and the snapshot holds
\* results of one device only
C39_OneEndpointPerCall ==
    \A c \in Calls :
        /\ Cardinality(endpointsOf(c)) <= 1
        /\ dashboards[c].pc = "returned" => Cardinality(sourcesOf(c)) <= 1
====
